---- MODULE Spec2Model ----
(***************************************************************************)
(* A model of the name-matching cascade of biokb_ipni                      *)
(* (src/src/biokb_ipni/api/main.py, names_find_similar) against the Name   *)
(* table of the registry.                                                  *)
(*                                                                         *)
(* Strings are sequences of one-character strings.  Scores are exact       *)
(* rationals [n |-> numerator, d |-> denominator]; a reported similarity   *)
(* is an integer number of hundredths (round(x, 2) * 100).                 *)
(***************************************************************************)
EXTENDS Integers, Sequences, FiniteSets, TLC

(***************************************************************************)
(* Characters and strings                                                  *)
(***************************************************************************)

\* str.lower() on the letters the model uses.
LowerMap ==
    [A |-> "a", E |-> "e", I |-> "i", O |-> "o", U |-> "u",
     L |-> "l", M |-> "m", N |-> "n", R |-> "r"]

\* str.upper() on the letters the model uses.
UpperMap ==
    [a |-> "A", e |-> "E", i |-> "I", o |-> "O", u |-> "U",
     l |-> "L", m |-> "M", n |-> "N", r |-> "R"]

LowerChar(c) == IF c \in DOMAIN LowerMap THEN LowerMap[c] ELSE c

UpperChar(c) == IF c \in DOMAIN UpperMap THEN UpperMap[c] ELSE c

Lower(s) == [k \in 1..Len(s) |-> LowerChar(s[k])]

Upper(s) == [k \in 1..Len(s) |-> UpperChar(s[k])]

\* The characters Python's str.strip() and the regular expression \s treat
\* as whitespace (those the model uses).
IsSpace(c) == c \in {" ", "\t"}

RECURSIVE LStrip(_)
LStrip(s) == IF s # <<>> /\ IsSpace(Head(s)) THEN LStrip(Tail(s)) ELSE s

RECURSIVE RStrip(_)
RStrip(s) ==
    IF s # <<>> /\ IsSpace(s[Len(s)]) THEN RStrip(SubSeq(s, 1, Len(s) - 1)) ELSE s

\* str.strip()
Strip(s) == RStrip(LStrip(s))

\* A variant of CollapseWs for the pattern \s: every whitespace character
\* becomes one space, a run of them as many spaces.
ReplaceEachWs(s) == [k \in 1..Len(s) |-> IF IsSpace(s[k]) THEN " " ELSE s[k]]

\* re.sub(r"\s+", " ", s): every maximal run of whitespace becomes one space.
RECURSIVE CollapseWs(_)
CollapseWs(s) ==
    IF s = <<>> THEN <<>>
    ELSE IF IsSpace(Head(s)) THEN <<" ">> \o CollapseWs(LStrip(s))
    ELSE <<Head(s)>> \o CollapseWs(Tail(s))

\* search_for_name = re.sub(r"\s+", " ", search_for_name.strip())
Normalize(s) == CollapseWs(Strip(s))

\* str.split(" "): the pieces between single spaces, empty pieces included;
\* "".split(" ") is [""].
RECURSIVE SplitAcc(_, _, _)
SplitAcc(s, cur, acc) ==
    IF s = <<>> THEN Append(acc, cur)
    ELSE IF Head(s) = " " THEN SplitAcc(Tail(s), <<>>, Append(acc, cur))
    ELSE SplitAcc(Tail(s), Append(cur, Head(s)), acc)

\* name_splitted = [x.strip() for x in search_for_name.split(" ")]
SplitName(s) ==
    LET parts == SplitAcc(s, <<>>, <<>>)
    IN  [k \in 1..Len(parts) |-> Strip(parts[k])]

\* SQL LIKE as SQLite (the default connection) evaluates it: % matches any
\* run of characters, _ any one character, ASCII letters match ignoring case.
RECURSIVE Like(_, _)
Like(p, s) ==
    IF p = <<>> THEN s = <<>>
    ELSE IF Head(p) = "%"
         THEN Like(Tail(p), s) \/ (s # <<>> /\ Like(p, Tail(s)))
    ELSE /\ s # <<>>
         /\ (Head(p) = "_" \/ LowerChar(Head(p)) = LowerChar(Head(s)))
         /\ Like(Tail(p), Tail(s))

\* s[-4:]: the last four characters, the whole string when it is shorter.
Last4(s) == IF Len(s) <= 4 THEN s ELSE SubSeq(s, Len(s) - 3, Len(s))

(***************************************************************************)
(* Rationals                                                               *)
(***************************************************************************)

Rat(n, d) == [n |-> n, d |-> d]

\* a > b for rationals with positive denominators
RatGt(a, b) == a.n * b.d > b.n * a.d

\* max(a, b)
RatMax(a, b) == IF RatGt(b, a) THEN b ELSE a

\* x > h / 100
GtHundredths(x, h) == x.n * 100 > h * x.d

\* round(x, 2) in hundredths: to nearest, an exact tie to the even hundredth.
Round2(x) ==
    LET q == (100 * x.n) \div x.d
        r == (100 * x.n) % x.d
    IN  IF 2 * r < x.d THEN q
        ELSE IF 2 * r > x.d THEN q + 1
        ELSE IF q % 2 = 0 THEN q ELSE q + 1

(***************************************************************************)
(* The registry and the queries                                            *)
(***************************************************************************)

\* The scientific names a Name row may carry.
NamePool ==
    <<
       \* 'Alnea'
       <<"A", "l", "n", "e", "a">>,
       \* 'Alenea'
       <<"A", "l", "e", "n", "e", "a">>,
       \* 'Alnea molea'
       <<"A", "l", "n", "e", "a", " ", "m", "o", "l", "e", "a">>,
       \* 'Alma'
       <<"A", "l", "m", "a">>,
       \* 'Malea'
       <<"M", "a", "l", "e", "a">>,
       \* 'Anemonella millimana molinae'
       <<"A", "n", "e", "m", "o", "n", "e", "l", "l", "a", " ", "m", "i",
         "l", "l", "i", "m", "a", "n", "a", " ", "m", "o", "l", "i", "n",
         "a", "e">>,
       \* 'A'
       <<"A">>,
       \* 'Aoiuoiuom'
       <<"A", "o", "i", "u", "o", "i", "u", "o", "m">>,
       \* 'Ema'
       <<"E", "m", "a">>
    >>

\* The values of the search_for_name parameter, as the caller supplies them.
Queries ==
    {
       \* 'Alnea'
       <<"A", "l", "n", "e", "a">>,
       \* ' Alnea<tab>'
       <<" ", "A", "l", "n", "e", "a", "\t">>,
       \* 'alnea'
       <<"a", "l", "n", "e", "a">>,
       \* 'Alne'
       <<"A", "l", "n", "e">>,
       \* 'a mole'
       <<"a", " ", "m", "o", "l", "e">>,
       \* 'A mol'
       <<"A", " ", "m", "o", "l">>,
       \* 'Amol'
       <<"A", "m", "o", "l">>,
       \* 'Mo'
       <<"M", "o">>,
       \* 'A'
       <<"A">>,
       \* 'lea'
       <<"l", "e", "a">>,
       \* 'Amma'
       <<"A", "m", "m", "a">>,
       \* 'aema'
       <<"a", "e", "m", "a">>,
       \* 'o <tab> o'
       <<"o", " ", "\t", " ", "o">>,
       \* ''
       <<>>,
       \* ' <tab>'
       <<" ", "\t">>
    }

\* A registry has at most MaxRows base rows, taken once, or at most
\* CopiedRows base rows with one of the first MaxCopiedNames names of the
\* pool, repeated MaxCopies times.
MaxRows == 2

MaxCopies == 16

MaxCopiedNames == 4

\* The handler is called at most MaxRequests times with the same query.
MaxRequests == 2

\* [:30]
PhoneticLimit == 30

\* The number of base rows that, repeated MaxCopies times, make a registry
\* of more rows than the phonetic stage returns.
CopiedRows == (PhoneticLimit \div MaxCopies) + 1

\* The Name table in fetch order: name k of the base sequence, the whole
\* sequence repeated copies times; the primary key is the position.
Rows(base, copies) ==
    [k \in 1..(Len(base) * copies) |->
        [scientific_name |-> NamePool[base[((k - 1) % Len(base)) + 1]],
         id |-> k]]

Registries ==
    {Rows(base, 1) :
        base \in UNION {[1..n -> 1..Len(NamePool)] : n \in 0..MaxRows}}
    \cup
    {Rows(base, MaxCopies) :
        base \in UNION {[1..n -> 1..MaxCopiedNames] : n \in 0..CopiedRows}}

(***************************************************************************)
(* String metrics of the libraries the handler calls                       *)
(***************************************************************************)

\* The strings the handler can hand to a metric as the query (the first
\* argument) and as the candidate (the second): the normalised queries and
\* the names of the pool, as they are and lower-cased.  Each metric is
\* computed once for every such pair and looked up afterwards; a metric is
\* not defined on any other string.
QueryStrings ==
    {Normalize(q) : q \in Queries} \cup {Lower(Normalize(q)) : q \in Queries}

NameStrings ==
    {NamePool[k] : k \in 1..Len(NamePool)}
        \cup {Lower(NamePool[k]) : k \in 1..Len(NamePool)}

Max(a, b) == IF a >= b THEN a ELSE b

Min(a, b) == IF a <= b THEN a ELSE b

\* jellyfish.metaphone on the letters the model uses: the string is
\* lower-cased, a leading "ae" loses its first letter, a letter equal to its
\* successor is skipped, a vowel is kept only at the start of a word, l m n r
\* are kept, a space is kept once after a coded letter; the code is
\* upper-cased.
RECURSIVE MetaphoneFrom(_, _, _)
MetaphoneFrom(s, i, result) ==
    IF i > Len(s) THEN result
    ELSE LET c == s[i]
         IN  IF i < Len(s) /\ s[i + 1] = c
             THEN MetaphoneFrom(s, i + 1, result)
             ELSE IF c \in {"a", "e", "i", "o", "u"}
             THEN MetaphoneFrom(s, i + 1,
                      IF i = 1 \/ s[i - 1] = " " THEN Append(result, c) ELSE result)
             ELSE IF c \in {"l", "m", "n", "r"}
             THEN MetaphoneFrom(s, i + 1, Append(result, c))
             ELSE IF c = " "
             THEN MetaphoneFrom(s, i + 1,
                      IF result # <<>> /\ result[Len(result)] # " "
                      THEN Append(result, " ") ELSE result)
             ELSE MetaphoneFrom(s, i + 1, result)

MetaphoneCode(str) ==
    LET low == Lower(str)
        s == IF Len(low) >= 2 /\ SubSeq(low, 1, 2) = <<"a", "e">>
             THEN Tail(low) ELSE low
    IN  Upper(MetaphoneFrom(s, 1, <<>>))

MetaphoneTable ==
    [str \in QueryStrings \cup NameStrings |-> MetaphoneCode(str)] @@ <<>>

Metaphone(str) ==
    MetaphoneTable[str]

\* The matching pass of jellyfish's Jaro similarity: for each character of
\* s1 in order, the first unflagged equal character of s2 within the search
\* range is flagged.  The result is the pair of flagged position sets.
RECURSIVE JaroFlags(_, _, _, _, _, _)
JaroFlags(s1, s2, range, i, f1, f2) ==
    IF i > Len(s1) THEN <<f1, f2>>
    ELSE LET low == Max(1, i - range)
             hi == Min(i + range, Len(s2))
             hits == {j \in low..hi : j \notin f2 /\ s2[j] = s1[i]}
         IN  IF hits = {} THEN JaroFlags(s1, s2, range, i + 1, f1, f2)
             ELSE LET j == CHOOSE h \in hits : \A g \in hits : h <= g
                  IN  JaroFlags(s1, s2, range, i + 1, f1 \cup {i}, f2 \cup {j})

\* The characters of s at the positions of f, in order.
RECURSIVE Flagged(_, _, _)
Flagged(s, f, i) ==
    IF i > Len(s) THEN <<>>
    ELSE IF i \in f THEN <<s[i]>> \o Flagged(s, f, i + 1)
    ELSE Flagged(s, f, i + 1)

\* jellyfish.jaro_winkler_similarity(s1, s2): the Jaro weight, raised by
\* 0.1 * (1 - weight) for each of the up to four leading characters the two
\* strings share, only when the weight exceeds 0.7.
JaroWinklerSimilarity(s1, s2) ==
    IF s1 = <<>> \/ s2 = <<>> THEN Rat(0, 1)
    ELSE LET len1 == Len(s1)
             len2 == Len(s2)
             range == Max(0, (Max(len1, len2) \div 2) - 1)
             fl == JaroFlags(s1, s2, range, 1, {}, {})
             m == Cardinality(fl[1])
             c1 == Flagged(s1, fl[1], 1)
             c2 == Flagged(s2, fl[2], 1)
             t == Cardinality({k \in 1..m : c1[k] # c2[k]}) \div 2
             weight == Rat(m * m * len2 + m * m * len1 + (m - t) * len1 * len2,
                           3 * len1 * len2 * m)
             j == Min(Min(len1, len2), 4)
             pre == Cardinality({k \in 1..j : \A h \in 1..k : s1[h] = s2[h]})
         IN  IF m = 0 THEN Rat(0, 1)
             ELSE IF GtHundredths(weight, 70) /\ pre > 0
             THEN Rat(10 * weight.n + pre * (weight.d - weight.n), 10 * weight.d)
             ELSE weight

JaroWinklerTable ==
    [p \in QueryStrings \X NameStrings |-> JaroWinklerSimilarity(p[1], p[2])]
        @@ <<>>

JaroWinkler(s1, s2) ==
    JaroWinklerTable[<<s1, s2>>]

\* The length of the common run of a from i and b from j, inside a[..ahi]
\* and b[..bhi].
RECURSIVE RunLen(_, _, _, _, _, _)
RunLen(a, b, i, j, ahi, bhi) ==
    IF i > ahi \/ j > bhi \/ a[i] # b[j] THEN 0
    ELSE 1 + RunLen(a, b, i + 1, j + 1, ahi, bhi)

\* difflib.SequenceMatcher.get_matching_blocks, summed: the longest common
\* block of a[alo..ahi] and b[blo..bhi] (the earliest in a, then the
\* earliest in b, among the longest), then the same to its left and to its
\* right.  No character is junk (isjunk is None, the strings are shorter
\* than 200).
RECURSIVE MatchCount(_, _, _, _, _, _)
MatchCount(a, b, alo, ahi, blo, bhi) ==
    LET runs == {<<i, j>> \in (alo..ahi) \X (blo..bhi) : a[i] = b[j]}
        best == CHOOSE p \in runs :
                    \A q \in runs :
                        LET kp == RunLen(a, b, p[1], p[2], ahi, bhi)
                            kq == RunLen(a, b, q[1], q[2], ahi, bhi)
                        IN  \/ kp > kq
                            \/ kp = kq /\ p[1] < q[1]
                            \/ kp = kq /\ p[1] = q[1] /\ p[2] <= q[2]
        k == RunLen(a, b, best[1], best[2], ahi, bhi)
    IN  IF runs = {} THEN 0
        ELSE k + MatchCount(a, b, alo, best[1] - 1, blo, best[2] - 1)
               + MatchCount(a, b, best[1] + k, ahi, best[2] + k, bhi)

\* SequenceMatcher(None, a, b).ratio() = 2 * matches / (len(a) + len(b)),
\* 1.0 for two empty strings.
SequenceMatcherRatio(a, b) ==
    IF Len(a) + Len(b) = 0 THEN Rat(1, 1)
    ELSE Rat(2 * MatchCount(a, b, 1, Len(a), 1, Len(b)), Len(a) + Len(b))

SequenceRatioTable ==
    [p \in QueryStrings \X NameStrings |-> SequenceMatcherRatio(p[1], p[2])]
        @@ <<>>

SequenceRatio(a, b) ==
    SequenceRatioTable[<<a, b>>]

\* One row of the longest-common-subsequence table: prev is the row of the
\* characters before ch, acc the new row so far.
RECURSIVE LcsRow(_, _, _, _)
LcsRow(prev, ch, b, acc) ==
    LET j == Len(acc) + 1
        diag == IF j = 1 THEN 0 ELSE prev[j - 1]
        left == IF j = 1 THEN 0 ELSE acc[j - 1]
    IN  IF j > Len(b) THEN acc
        ELSE LcsRow(prev, ch, b,
                 Append(acc, IF ch = b[j] THEN diag + 1 ELSE Max(prev[j], left)))

RECURSIVE LcsRows(_, _, _, _)
LcsRows(a, b, i, prev) ==
    IF i > Len(a) THEN prev
    ELSE LcsRows(a, b, i + 1, LcsRow(prev, a[i], b, <<>>))

LcsLen(a, b) ==
    IF b = <<>> THEN 0
    ELSE LcsRows(a, b, 1, [j \in 1..Len(b) |-> 0])[Len(b)]

\* Levenshtein.ratio(a, b) = 1 - indel_distance / (len(a) + len(b)), the
\* insert/delete distance being len(a) + len(b) - 2 * lcs; 1.0 for two empty
\* strings.
IndelRatio(a, b) ==
    IF Len(a) + Len(b) = 0 THEN Rat(1, 1)
    ELSE Rat(2 * LcsLen(a, b), Len(a) + Len(b))

LevenshteinRatioTable ==
    [p \in QueryStrings \X NameStrings |-> IndelRatio(p[1], p[2])] @@ <<>>

LevenshteinRatio(a, b) ==
    LevenshteinRatioTable[<<a, b>>]

(***************************************************************************)
(* The steps of names_find_similar                                         *)
(***************************************************************************)

VARIABLES
    registry,          \* the rows of the Name table, in fetch order
    query,             \* search_for_name as the caller supplied it
    search_for_name,   \* the handler's variable, reassigned at line 278
    name_splitted,
    phonetic_matches,
    results,           \* the rows of the last pattern or Levenshtein fetch
    ratios,
    pc,                \* the handler's position
    stages,            \* the fetches issued so far, each with the number
                       \* of results its stage kept
    outcome,           \* how the call ended
    previous,          \* how the call before this one ended
    served             \* the number of calls completed

\* The state of the other parts of the program, which names_find_similar
\* neither reads nor writes.
VARIABLES
    requests,          \* the calls of names_find_similar in progress, each
                       \* with its parameter, its locals and its session
    tables,            \* the rows of every table of the database
    source,            \* the TSV files of the current IPNI snapshot
    zip_file,          \* whether the downloaded zip file is on disk
    taxtree_file,      \* whether the NCBI taxonomy zip file is on disk
    data_folder,       \* whether the folder of unzipped files is on disk
    manager,           \* the attributes of the DbManager object
    reply,             \* how the last call of an import or a search ended
    imports,           \* the calls of DbManager.import_data so far, each
                       \* with the tables it left
    df,                \* the DataFrame handed to the cleaning function
    df_new,            \* the DataFrame it returned
    load,              \* the position of a call of import_data among its
                       \* inserts, and the tables whose insert has run
    search,            \* the offset and limit of a search request
    server,            \* the API server: its environment, its credentials,
                       \* the files it reads and its last response
    date               \* a cell of the col:date column and what parse_date
                       \* made of it

cascade_vars ==
    <<registry, query, search_for_name, name_splitted, phonetic_matches,
      results, ratios, pc, stages, outcome, previous, served>>

concurrent_vars == <<requests>>

import_vars ==
    <<tables, source, zip_file, taxtree_file, data_folder, manager, reply,
      imports, load>>

frame_vars == <<df, df_new, date>>

page_vars == <<search, server>>

vars ==
    <<cascade_vars, concurrent_vars, import_vars, frame_vars, page_vars>>

\* No call of names_find_similar is in progress but the one the cascade
\* variables describe.
NoRequests == requests = <<>>

\* No import has run and no database is attached.
NoImport ==
    /\ tables = <<>>
    /\ source = <<>>
    /\ zip_file = FALSE
    /\ taxtree_file = FALSE
    /\ data_folder = FALSE
    /\ manager = <<>>
    /\ reply = <<>>
    /\ imports = <<>>
    /\ load = <<>>

\* pd.DataFrame({}): no column and no row.
EmptyFrame == [columns |-> <<>>, rows |-> <<>>]

\* No cell is being parsed.
NoDate == [value |-> <<>>, result |-> <<>>]

\* No DataFrame is being cleaned.
NoFrame == df = EmptyFrame /\ df_new = EmptyFrame /\ date = NoDate

\* The variables of names_find_similar but the position.
call_vars ==
    <<registry, query, search_for_name, name_splitted, phonetic_matches,
      results, ratios, stages, outcome, previous, served>>

\* No paginated search is being served and no server is running.
NoSearch == search = <<>> /\ server = <<>>

\* jaro_similarity > 0.8
JaroThreshold == 80

\* final_similarity > 0.5
PhoneticThreshold == 50

\* ratio > 0.3 in the pattern stage
PatternThreshold == 30

\* ratio > 0.3 in the Levenshtein stage
EditThreshold == 30

\* [:3]
EditLimit == 3

\* calculate_with: Literal["exact", "levenshtein", "metaphone_jaro",
\* "pattern_match"]
CalculateWith == {"exact", "levenshtein", "metaphone_jaro", "pattern_match"}

\* schemas.NameSearchSimilarNameResult(...)
Result(method, row, sim) ==
    [calculate_with |-> method, scientific_name |-> row.scientific_name,
     ipni_id |-> row.id, similarity |-> sim]

\* l[:n]
Take(l, n) == SubSeq(l, 1, Min(n, Len(l)))

\* A variant of SortedBySimilarity that leaves the list in fetch order.
Unsorted(l) == l

\* A variant of SortedBySimilarity that is descending but not stable: of two
\* results with equal similarity the later one comes first.
RECURSIVE SortedLaterFirst(_)
SortedLaterFirst(l) ==
    IF l = <<>> THEN <<>>
    ELSE LET x == l[Len(l)]
             front == SortedLaterFirst(SubSeq(l, 1, Len(l) - 1))
             p == Cardinality({k \in 1..Len(front) :
                                   front[k].similarity > x.similarity})
         IN  SubSeq(front, 1, p) \o <<x>> \o SubSeq(front, p + 1, Len(front))

\* sorted(l, key=lambda x: x.similarity, reverse=True): descending and
\* stable, equal keys keep their order.
RECURSIVE SortedBySimilarity(_)
SortedBySimilarity(l) ==
    IF l = <<>> THEN <<>>
    ELSE LET x == l[Len(l)]
             front == SortedBySimilarity(SubSeq(l, 1, Len(l) - 1))
             p == Cardinality({k \in 1..Len(front) :
                                   front[k].similarity >= x.similarity})
         IN  SubSeq(front, 1, p) \o <<x>> \o SubSeq(front, p + 1, Len(front))

\* A variant of ExactLookup that fetches with .first(): one row at most.
ExactLookupFirst(reg, name) ==
    LET Hit(row) == row.scientific_name = name
    IN  Take(SelectSeq(reg, Hit), 1)

\* session.execute(stmt.where(Name.scientific_name == search_for_name)).all()
\* The comparison is SQLite's (the default connection): character by
\* character, case-sensitive.
ExactLookup(reg, name) ==
    LET Hit(row) == row.scientific_name = name
    IN  SelectSeq(reg, Hit)

\* The list built from exact_results.
ExactResponse(rows) == [k \in 1..Len(rows) |-> Result("exact", rows[k], 100)]

\* first_letter = search_for_name[0].upper()
FirstLetter(name) == UpperChar(name[1])

\* The rows whose scientific_name is LIKE pattern.
LikeLookup(reg, pattern) ==
    LET Hit(row) == Like(pattern, row.scientific_name)
    IN  SelectSeq(reg, Hit)

\* A variant of CandidateLookup without the first-letter pattern: every row
\* is a candidate.
CandidateLookupAll(reg, name) == reg

\* candidates: Name.scientific_name.like(f"{first_letter}%")
CandidateLookup(reg, name) == LikeLookup(reg, <<FirstLetter(name), "%">>)

\* A variant of PhoneticAccept that asks for both: the same metaphone code
\* and a Jaro-Winkler similarity above 0.8.
PhoneticAcceptBoth(name, cand) ==
    /\ Metaphone(name) = Metaphone(cand)
    /\ GtHundredths(JaroWinkler(Lower(name), Lower(cand)), JaroThreshold)

\* metaphone_match or jaro_similarity > 0.8
PhoneticAccept(name, cand) ==
    \/ Metaphone(name) = Metaphone(cand)
    \/ GtHundredths(JaroWinkler(Lower(name), Lower(cand)), JaroThreshold)

\* final_similarity = max(jaro_similarity, sequence_ratio)
FinalSimilarity(name, cand) ==
    RatMax(JaroWinkler(Lower(name), Lower(cand)),
           SequenceRatio(Lower(name), Lower(cand)))

\* if final_similarity > 0.5
PhoneticKeep(score) == GtHundredths(score, PhoneticThreshold)

\* A variant of NewPhoneticMatches for a list that outlives the call (a
\* module-level list): it still holds what the call before left in it.
KeptPhoneticMatches == phonetic_matches

\* phonetic_matches = [] at the start of the phonetic stage
NewPhoneticMatches == <<>>

\* The loop over candidates that fills phonetic_matches.
PhoneticMatches(candidates, name) ==
    LET Hit(row) ==
            /\ PhoneticAccept(name, row.scientific_name)
            /\ PhoneticKeep(FinalSimilarity(name, row.scientific_name))
        kept == SelectSeq(candidates, Hit)
    IN  NewPhoneticMatches \o
        [k \in 1..Len(kept) |->
            Result("metaphone_jaro", kept[k],
                   Round2(FinalSimilarity(name, kept[k].scientific_name)))]

\* A variant of PhoneticResponse without the [:30].
PhoneticResponseAll(matches) == SortedBySimilarity(matches)

\* sorted(phonetic_matches, ...)[:30]
PhoneticResponse(matches) == Take(SortedBySimilarity(matches), PhoneticLimit)

\* search_str: the query and a wildcard for fewer than two tokens, else the
\* first two tokens, each followed by a wildcard, with a space between.
SearchStr(name, splitted) ==
    IF Len(splitted) < 2 THEN name \o <<"%">>
    ELSE splitted[1] \o <<"%", " ">> \o splitted[2] \o <<"%">>

\* if ratio > 0.3 in the pattern stage
PatternKeep(ratio) == GtHundredths(ratio, PatternThreshold)

\* ratios = [] before the pattern stage
NewRatios == <<>>

\* The loop over the pattern stage's results that fills ratios.
PatternRatios(rows, name) ==
    LET Hit(row) == PatternKeep(SequenceRatio(name, row.scientific_name))
        kept == SelectSeq(rows, Hit)
    IN  NewRatios \o
        [k \in 1..Len(kept) |->
            Result("pattern_match", kept[k],
                   Round2(SequenceRatio(name, kept[k].scientific_name)))]

\* A variant of PatternResponse that cuts the list as the phonetic stage
\* cuts its list.
PatternResponseTop(l) == Take(SortedBySimilarity(l), PhoneticLimit)

\* sorted(ratios, ...)
PatternResponse(l) == SortedBySimilarity(l)

\* A variant of EditLookup without the second pattern: only the rows that
\* start with the query's first character.
EditLookupPrefix(reg, name) ==
    LET Hit(row) == Like(<<name[1], "%">>, row.scientific_name)
    IN  SelectSeq(reg, Hit)

\* stmt4: LIKE first character and wildcard, OR LIKE wildcard and the last
\* four characters.
EditLookup(reg, name) ==
    LET Hit(row) ==
            \/ Like(<<name[1], "%">>, row.scientific_name)
            \/ Like(<<"%">> \o Last4(name), row.scientific_name)
    IN  SelectSeq(reg, Hit)

\* A variant of EditKeep without the threshold.
EditKeepAll(ratio) == TRUE

\* if ratio > 0.3 in the Levenshtein stage
EditKeep(ratio) == GtHundredths(ratio, EditThreshold)

\* A variant of EditRatios that tags its results as the pattern stage's loop
\* tags them.
EditRatiosTaggedPattern(rows, name) ==
    LET Hit(row) == EditKeep(LevenshteinRatio(name, row.scientific_name))
        kept == SelectSeq(rows, Hit)
    IN  [k \in 1..Len(kept) |->
            Result("pattern_match", kept[k],
                   Round2(LevenshteinRatio(name, kept[k].scientific_name)))]

\* The loop over the Levenshtein stage's results that extends ratios.
EditRatios(rows, name) ==
    LET Hit(row) == EditKeep(LevenshteinRatio(name, row.scientific_name))
        kept == SelectSeq(rows, Hit)
    IN  [k \in 1..Len(kept) |->
            Result("levenshtein", kept[k],
                   Round2(LevenshteinRatio(name, kept[k].scientific_name)))]

\* A variant of EditResponse without the [:3].
EditResponseAll(l) == SortedBySimilarity(l)

\* sorted(ratios, ...)[:3]
EditResponse(l) == Take(SortedBySimilarity(l), EditLimit)

(***************************************************************************)
(* Outcomes and actions                                                    *)
(***************************************************************************)

\* No call has ended.
Pending == [kind |-> "pending", body |-> <<>>, detail |-> <<>>]

\* return <list>
Returned(l) == [kind |-> "list", body |-> l, detail |-> <<>>]

\* The handler ran off its end: it returned None, which is not a
\* list[NameSearchSimilarNameResult].
ReturnedNone == [kind |-> "none", body |-> <<>>, detail |-> <<>>]

\* search_for_name[0] on the empty string
IndexError == [kind |-> "index_error", body |-> <<>>, detail |-> <<>>]

\* A variant of NotFoundDetail that reports the query as supplied.
SuppliedQueryDetail == query

\* detail=f"Name '{search_for_name}' not found."
NotFoundDetail == search_for_name

\* raise HTTPException(status_code=status.HTTP_404_NOT_FOUND, ...)
NotFound == [kind |-> "not_found", body |-> <<>>, detail |-> NotFoundDetail]

Stage(name, n) == [stage |-> name, kept |-> n]

Init ==
    /\ registry \in Registries
    /\ query \in Queries
    /\ search_for_name = query
    /\ name_splitted = <<>>
    /\ phonetic_matches = <<>>
    /\ results = <<>>
    /\ ratios = <<>>
    /\ pc = "exact"
    /\ stages = <<>>
    /\ outcome = Pending
    /\ previous = Pending
    /\ served = 0
    /\ NoRequests /\ NoImport /\ NoFrame /\ NoSearch

\* The call ends with outcome o.
End(o) ==
    /\ outcome' = o
    /\ pc' = "done"
    /\ served' = served + 1

\* The call goes on to the step at label.
Goto(label) ==
    /\ pc' = label
    /\ UNCHANGED <<outcome, served>>

\* Lines 278-299: normalise the query, look for rows with exactly that
\* name, and return them if there are any.
ExactStage ==
    /\ pc = "exact"
    /\ LET name == Normalize(search_for_name)
           exact_results == ExactLookup(registry, name)
       IN  /\ search_for_name' = name
           /\ name_splitted' = SplitName(name)
           /\ stages' = Append(stages, Stage("exact", Len(exact_results)))
           /\ IF exact_results # <<>>
              THEN End(Returned(ExactResponse(exact_results)))
              ELSE Goto("phonetic")
    /\ UNCHANGED <<registry, query, phonetic_matches, results, ratios, previous>>
    /\ UNCHANGED <<concurrent_vars, import_vars, frame_vars, page_vars>>

\* Lines 304-347: the first letter of the query (an IndexError when the
\* query is empty), the rows starting with it, the phonetic filter, and the
\* return of the 30 best if any row passed.
PhoneticStage ==
    /\ pc = "phonetic"
    /\ IF search_for_name = <<>>
       THEN /\ End(IndexError)
            /\ UNCHANGED <<phonetic_matches, stages>>
       ELSE LET candidates == CandidateLookup(registry, search_for_name)
                matches == PhoneticMatches(candidates, search_for_name)
            IN  /\ phonetic_matches' = matches
                /\ stages' = Append(stages, Stage("phonetic", Len(matches)))
                /\ IF matches # <<>>
                   THEN End(Returned(PhoneticResponse(matches)))
                   ELSE Goto("pattern")
    /\ UNCHANGED <<registry, query, search_for_name, name_splitted, results,
                   ratios, previous>>
    /\ UNCHANGED <<concurrent_vars, import_vars, frame_vars, page_vars>>

\* A variant of PatternStage without the return at line 378 and the guard
\* at line 381: the Levenshtein stage runs after a pattern stage that kept
\* results.
PatternStageNoReturn ==
    /\ pc = "pattern"
    /\ LET fetched == LikeLookup(registry, SearchStr(search_for_name, name_splitted))
           kept == PatternRatios(fetched, search_for_name)
       IN  /\ results' = fetched
           /\ ratios' = kept
           /\ stages' = Append(stages, Stage("pattern", Len(kept)))
           /\ Goto("edit")
    /\ UNCHANGED <<registry, query, search_for_name, name_splitted,
                   phonetic_matches, previous>>
    /\ UNCHANGED <<concurrent_vars, import_vars, frame_vars, page_vars>>

\* Lines 349-378: the rows matching the search pattern, the sequence-ratio
\* filter, and the return of all rows that passed if any did.
PatternStage ==
    /\ pc = "pattern"
    /\ LET fetched == LikeLookup(registry, SearchStr(search_for_name, name_splitted))
           kept == PatternRatios(fetched, search_for_name)
       IN  /\ results' = fetched
           /\ ratios' = kept
           /\ stages' = Append(stages, Stage("pattern", Len(kept)))
           /\ IF kept # <<>>
              THEN End(Returned(PatternResponse(kept)))
              ELSE Goto("edit")
    /\ UNCHANGED <<registry, query, search_for_name, name_splitted,
                   phonetic_matches, previous>>
    /\ UNCHANGED <<concurrent_vars, import_vars, frame_vars, page_vars>>

\* Lines 381-402: the rows sharing the query's first character or its last
\* four, the Levenshtein filter, and the return of the 3 best if any passed.
EditStage ==
    /\ pc = "edit"
    /\ LET fetched == EditLookup(registry, search_for_name)
           kept == ratios \o EditRatios(fetched, search_for_name)
       IN  /\ results' = fetched
           /\ ratios' = kept
           /\ stages' = Append(stages, Stage("edit", Len(kept)))
           /\ IF kept # <<>>
              THEN End(Returned(EditResponse(kept)))
              ELSE Goto("final")
    /\ UNCHANGED <<registry, query, search_for_name, name_splitted,
                   phonetic_matches, previous>>
    /\ UNCHANGED <<concurrent_vars, import_vars, frame_vars, page_vars>>

\* Lines 404-408: not found when the last fetch was empty; otherwise the
\* function ends without a return statement.
FinalCheck ==
    /\ pc = "final"
    /\ IF results = <<>> THEN End(NotFound) ELSE End(ReturnedNone)
    /\ UNCHANGED <<registry, query, search_for_name, name_splitted,
                   phonetic_matches, results, ratios, stages, previous>>
    /\ UNCHANGED <<concurrent_vars, import_vars, frame_vars, page_vars>>

\* The caller sends the same query again.  The new call binds its
\* parameter; its other locals hold nothing it reads before it assigns
\* them (lines 279, 317, 349, 350, 362).
CallAgain ==
    /\ pc = "done"
    /\ served < MaxRequests
    /\ previous' = outcome
    /\ outcome' = Pending
    /\ search_for_name' = query
    /\ stages' = <<>>
    /\ pc' = "exact"
    /\ UNCHANGED <<registry, query, name_splitted, phonetic_matches, results,
                   ratios, served>>
    /\ UNCHANGED <<concurrent_vars, import_vars, frame_vars, page_vars>>

Next ==
    \/ ExactStage
    \/ PhoneticStage
    \/ PatternStage
    \/ EditStage
    \/ FinalCheck
    \/ CallAgain

Spec == Init /\ [][Next]_vars

(***************************************************************************)
(* Line 278 on its own: the normalisation applied to any string, and       *)
(* applied again to its own result                                         *)
(***************************************************************************)

\* The supplied strings are all strings of at most MaxInputLen characters
\* over two letters, the space and the tab.
MaxInputLen == 5

\* Line 278 is applied at most MaxPasses times.
MaxPasses == 2

InputChars == {"a", "l", " ", "\t"}

InputStrings == UNION {[1..n -> InputChars] : n \in 0..MaxInputLen}

NormalizeInit ==
    /\ registry = <<>>
    /\ query \in InputStrings
    /\ search_for_name = query
    /\ name_splitted = <<>>
    /\ phonetic_matches = <<>>
    /\ results = <<>>
    /\ ratios = <<>>
    /\ pc = "normalize"
    /\ stages = <<>>
    /\ outcome = Pending
    /\ previous = Pending
    /\ served = 0
    /\ NoRequests /\ NoImport /\ NoFrame /\ NoSearch

\* search_for_name = re.sub(r"\s+", " ", search_for_name.strip()); served
\* counts the applications.
NormalizeAgain ==
    /\ pc = "normalize"
    /\ served < MaxPasses
    /\ search_for_name' = Normalize(search_for_name)
    /\ served' = served + 1
    /\ UNCHANGED <<registry, query, name_splitted, phonetic_matches, results,
                   ratios, pc, stages, outcome, previous>>
    /\ UNCHANGED <<concurrent_vars, import_vars, frame_vars, page_vars>>

NormalizeNext == NormalizeAgain

NormalizeSpec == NormalizeInit /\ [][NormalizeNext]_vars

(***************************************************************************)
(* Several calls of names_find_similar in progress against one registry    *)
(***************************************************************************)

\* The number of calls in progress at once.
MaxConcurrent == 2

\* The registries the calls read: the names 'Alnea', 'Alma', 'Malea' and
\* 'Anemonella millimana molinae', and the empty registry.
SharedRegistries == {Rows(<<1, 4, 5, 6>>, 1), Rows(<<>>, 1)}

\* The queries the clients send.
ConcurrentQueries ==
    {
       \* ' Alnea<tab>'
       <<" ", "A", "l", "n", "e", "a", "\t">>,
       \* 'Amma'
       <<"A", "m", "m", "a">>,
       \* 'A mol'
       <<"A", " ", "m", "o", "l">>,
       \* 'lea'
       <<"l", "e", "a">>
    }

\* The frame of a call: its parameter and its locals, and where it stands.
NewFrame(q) ==
    [search_for_name |-> q, name_splitted |-> <<>>, phonetic_matches |-> <<>>,
     results |-> <<>>, ratios |-> <<>>, pc |-> "exact", outcome |-> Pending]

\* A request as the server receives it: no session yet, the call not
\* started.  overlapped records that the call took a step while another
\* call was in progress.
NewRequest(q) ==
    [query |-> q, session |-> "none", frame |-> NewFrame(q),
     overlapped |-> FALSE]

\* The call ends with outcome o.
FrameEnd(f, o) == [f EXCEPT !.outcome = o, !.pc = "done"]

\* The steps of names_find_similar on a frame: from one fetch to the next,
\* or to the end of the call.
Step(reg, f) ==
    CASE f.pc = "exact" ->
             LET name == Normalize(f.search_for_name)
                 exact_results == ExactLookup(reg, name)
                 g == [f EXCEPT !.search_for_name = name,
                                !.name_splitted = SplitName(name)]
             IN  IF exact_results # <<>>
                 THEN FrameEnd(g, Returned(ExactResponse(exact_results)))
                 ELSE [g EXCEPT !.pc = "phonetic"]
      [] f.pc = "phonetic" ->
             IF f.search_for_name = <<>> THEN FrameEnd(f, IndexError)
             ELSE LET candidates == CandidateLookup(reg, f.search_for_name)
                      matches == PhoneticMatches(candidates, f.search_for_name)
                      g == [f EXCEPT !.phonetic_matches = matches]
                  IN  IF matches # <<>>
                      THEN FrameEnd(g, Returned(PhoneticResponse(matches)))
                      ELSE [g EXCEPT !.pc = "pattern"]
      [] f.pc = "pattern" ->
             LET fetched ==
                     LikeLookup(reg, SearchStr(f.search_for_name, f.name_splitted))
                 kept == PatternRatios(fetched, f.search_for_name)
                 g == [f EXCEPT !.results = fetched, !.ratios = kept]
             IN  IF kept # <<>>
                 THEN FrameEnd(g, Returned(PatternResponse(kept)))
                 ELSE [g EXCEPT !.pc = "edit"]
      [] f.pc = "edit" ->
             LET fetched == EditLookup(reg, f.search_for_name)
                 kept == f.ratios \o EditRatios(fetched, f.search_for_name)
                 g == [f EXCEPT !.results = fetched, !.ratios = kept]
             IN  IF kept # <<>>
                 THEN FrameEnd(g, Returned(EditResponse(kept)))
                 ELSE [g EXCEPT !.pc = "final"]
      [] f.pc = "final" ->
             IF f.results = <<>>
             THEN FrameEnd(f, [kind |-> "not_found", body |-> <<>>,
                               detail |-> f.search_for_name])
             ELSE FrameEnd(f, ReturnedNone)
      [] OTHER -> f

\* The call run from its start to its end with nothing in between.
RECURSIVE RunFrame(_, _)
RunFrame(reg, f) == IF f.pc = "done" THEN f ELSE RunFrame(reg, Step(reg, f))

RunAlone(reg, q) == RunFrame(reg, NewFrame(q)).outcome

\* A variant of FrameOf in which the locals are module-level names: every
\* call works on the one frame the first request set up.
SharedFrame(r) == requests[1].frame

\* The frame the call serving request r works on: its own.
FrameOf(r) == requests[r].frame

\* Another request holds a session.
OthersInProgress(r) ==
    \E o \in DOMAIN requests : o # r /\ requests[o].session = "open"

ConcurrentInit ==
    /\ registry \in SharedRegistries
    /\ requests \in [1..MaxConcurrent -> {NewRequest(q) : q \in ConcurrentQueries}]
    /\ query = <<>>
    /\ search_for_name = <<>>
    /\ name_splitted = <<>>
    /\ phonetic_matches = <<>>
    /\ results = <<>>
    /\ ratios = <<>>
    /\ pc = "serving"
    /\ stages = <<>>
    /\ outcome = Pending
    /\ previous = Pending
    /\ served = 0
    /\ NoImport /\ NoFrame /\ NoSearch

\* get_session up to its yield: request r gets a session of its own.
Arrive(r) ==
    /\ pc = "serving"
    /\ requests[r].session = "none"
    /\ requests' = [requests EXCEPT ![r].session = "open"]
    /\ UNCHANGED <<cascade_vars, import_vars, frame_vars, page_vars>>

\* The call serving request r runs to its next fetch or to its end.  The
\* registry is only read.
Advance(r) ==
    /\ pc = "serving"
    /\ requests[r].session = "open"
    /\ requests[r].frame.pc # "done"
    /\ requests' =
           [requests EXCEPT
               ![r].frame = Step(registry, FrameOf(r)),
               ![r].overlapped = @ \/ OthersInProgress(r)]
    /\ UNCHANGED <<cascade_vars, import_vars, frame_vars, page_vars>>

\* get_session after its yield: the session of request r is closed once
\* the call has ended.
Depart(r) ==
    /\ pc = "serving"
    /\ requests[r].session = "open"
    /\ requests[r].frame.pc = "done"
    /\ requests' = [requests EXCEPT ![r].session = "closed"]
    /\ UNCHANGED <<cascade_vars, import_vars, frame_vars, page_vars>>

ConcurrentNext ==
    \E r \in 1..MaxConcurrent :
        \/ Arrive(r)
        \/ Advance(r)
        \/ Depart(r)

ConcurrentSpec == ConcurrentInit /\ [][ConcurrentNext]_vars

(***************************************************************************)
(* tools.py: cleaning a DataFrame                                          *)
(***************************************************************************)

\* No call of names_find_similar is being served; the program is at label.
IdleCall(label) ==
    /\ registry = <<>>
    /\ query = <<>>
    /\ search_for_name = <<>>
    /\ name_splitted = <<>>
    /\ phonetic_matches = <<>>
    /\ results = <<>>
    /\ ratios = <<>>
    /\ pc = label
    /\ stages = <<>>
    /\ outcome = Pending
    /\ previous = Pending
    /\ served = 0

\* The rows of a DataFrame at most.
MaxFrameRows == 3

\* str.lower() on the ASCII letters.
AsciiLower ==
    [A |-> "a", B |-> "b", C |-> "c", D |-> "d", E |-> "e", F |-> "f",
     G |-> "g", H |-> "h", I |-> "i", J |-> "j", K |-> "k", L |-> "l",
     M |-> "m", N |-> "n", O |-> "o", P |-> "p", Q |-> "q", R |-> "r",
     S |-> "s", T |-> "t", U |-> "u", V |-> "v", W |-> "w", X |-> "x",
     Y |-> "y", Z |-> "z"]

\* [a-z]
IsLowerLetter(c) == \E u \in DOMAIN AsciiLower : AsciiLower[u] = c

\* [A-Za-z]
IsLetter(c) == c \in DOMAIN AsciiLower \/ IsLowerLetter(c)

\* column_name.split(":")[-1]
RECURSIVE AfterLastColon(_)
AfterLastColon(s) ==
    IF \E k \in 1..Len(s) : s[k] = ":"
    THEN AfterLastColon(Tail(s))
    ELSE s

\* .replace("ID", "Id")
RECURSIVE ReplaceID(_)
ReplaceID(s) ==
    IF Len(s) < 2 THEN s
    ELSE IF s[1] = "I" /\ s[2] = "D"
         THEN <<"I", "d">> \o ReplaceID(Tail(Tail(s)))
         ELSE <<s[1]>> \o ReplaceID(Tail(s))

\* re.findall(r"[A-Za-z][a-z]*", s): cur is the match being extended, acc
\* the matches found.
RECURSIVE FindWords(_, _, _)
FindWords(s, cur, acc) ==
    IF s = <<>> THEN (IF cur = <<>> THEN acc ELSE Append(acc, cur))
    ELSE IF cur # <<>> /\ IsLowerLetter(Head(s))
         THEN FindWords(Tail(s), Append(cur, Head(s)), acc)
         ELSE LET closed == IF cur = <<>> THEN acc ELSE Append(acc, cur)
              IN  IF IsLetter(Head(s))
                  THEN FindWords(Tail(s), <<Head(s)>>, closed)
                  ELSE FindWords(Tail(s), <<>>, closed)

\* "_".join(results)
RECURSIVE JoinUnderscore(_)
JoinUnderscore(ws) ==
    IF ws = <<>> THEN <<>>
    ELSE IF Len(ws) = 1 THEN ws[1]
    ELSE ws[1] \o <<"_">> \o JoinUnderscore(Tail(ws))

\* get_standard_column_name
GetStandardColumnName(column_name) ==
    LET without_prefix == ReplaceID(Strip(AfterLastColon(column_name)))
        joined == JoinUnderscore(FindWords(without_prefix, <<>>, <<>>))
    IN  [k \in 1..Len(joined) |->
            IF joined[k] \in DOMAIN AsciiLower THEN AsciiLower[joined[k]]
            ELSE joined[k]]

\* get_standard_column_names
GetStandardColumnNames(columns) ==
    [k \in 1..Len(columns) |-> GetStandardColumnName(columns[k])]

\* The length of the whitespace run s starts with.
RECURSIVE SpaceRun(_)
SpaceRun(s) ==
    IF s # <<>> /\ IsSpace(Head(s)) THEN 1 + SpaceRun(Tail(s)) ELSE 0

\* re.sub(r"\s{2,}", " ", s): every maximal run of two or more whitespace
\* characters becomes one space; a whitespace character on its own stays.
RECURSIVE CollapseLongRuns(_)
CollapseLongRuns(s) ==
    IF s = <<>> THEN <<>>
    ELSE IF SpaceRun(s) >= 2
         THEN <<" ">> \o CollapseLongRuns(SubSeq(s, SpaceRun(s) + 1, Len(s)))
         ELSE <<Head(s)>> \o CollapseLongRuns(Tail(s))

\* clean_if_string on a string
CleanIfString(input) == Strip(CollapseLongRuns(input))

\* A row has a string cell, text, and integer cells; clean_if_string returns
\* an integer as it is.
CleanRow(row) == [row EXCEPT !.text = CleanIfString(@)]

\* df.map(lambda x: clean_if_string(x))
MapClean(rows) == [k \in 1..Len(rows) |-> CleanRow(rows[k])]

\* drop_duplicates: of equal rows the first stays, in its place.
RECURSIVE DropDuplicates(_)
DropDuplicates(rows) ==
    IF rows = <<>> THEN <<>>
    ELSE LET before == DropDuplicates(SubSeq(rows, 1, Len(rows) - 1))
             last == rows[Len(rows)]
         IN  IF \E k \in 1..Len(before) : before[k] = last
             THEN before
             ELSE Append(before, last)

\* A variant of the function that drops the duplicates of the frame as it
\* came and cleans the cells afterwards.
DropThenClean(frame) ==
    [columns |-> GetStandardColumnNames(frame.columns),
     rows |-> MapClean(DropDuplicates(frame.rows))]

\* get_cleaned_and_standardized_dataframe: the frame it returns.
GetCleanedAndStandardizedDataframe(frame) ==
    [columns |-> GetStandardColumnNames(frame.columns),
     rows |-> DropDuplicates(MapClean(frame.rows))]

\* The string cells of the frames.
TextCells ==
    {
       \* 'a a'
       <<"a", " ", "a">>,
       \* 'a  a '
       <<"a", " ", " ", "a", " ">>,
       \* ' a \ta'
       <<" ", "a", " ", "\t", "a">>,
       \* 'a\ta'
       <<"a", "\t", "a">>,
       \* 'l'
       <<"l">>
    }

\* The integer cells of the frames.
NumCells == {1, 2}

\* The headers of the frames.
FrameColumns ==
    {
       \* 'col:scientificName', 'col:nameID'
       << <<"c", "o", "l", ":", "s", "c", "i", "e", "n", "t", "i", "f", "i",
            "c", "N", "a", "m", "e">>,
          <<"c", "o", "l", ":", "n", "a", "m", "e", "I", "D">> >>,
       \* ' col: aaa  Bbb', 'ID'
       << <<" ", "c", "o", "l", ":", " ", "a", "a", "a", " ", " ", "B", "b",
            "b">>,
          <<"I", "D">> >>
    }

Frames ==
    {[columns |-> c, rows |-> r] :
        c \in FrameColumns,
        r \in UNION {[1..n -> [text : TextCells, num : NumCells]] :
                        n \in 0..MaxFrameRows}}

\* frame is the DataFrame the caller read from a file.
CleanInit ==
    /\ IdleCall("clean")
    /\ NoRequests /\ NoImport /\ NoSearch
    /\ df \in Frames
    /\ df_new = EmptyFrame
    /\ date = NoDate

\* get_cleaned_and_standardized_dataframe(df): the columns of df itself are
\* renamed, the cleaned frame is a new one.
CleanFrame ==
    /\ pc = "clean"
    /\ df' = [df EXCEPT !.columns = GetStandardColumnNames(df.columns)]
    /\ df_new' = GetCleanedAndStandardizedDataframe(df)
    /\ pc' = "done"
    /\ UNCHANGED <<date, call_vars, concurrent_vars, import_vars, page_vars>>

CleanNext == CleanFrame

CleanSpec == CleanInit /\ [][CleanNext]_vars

(***************************************************************************)
(* db/manager.py: importing the IPNI files                                 *)
(***************************************************************************)

\* The calls of DbManager.import_data in a behaviour at most.
MaxImports == 2

\* Base.metadata.create_all: every table, empty.  The ipni package has the
\* table taxon, the biokb_ipni package the tables family and location.
EmptyTables ==
    [reference |-> <<>>, name |-> <<>>, taxon |-> <<>>, family |-> <<>>,
     location |-> <<>>, type_material |-> <<>>, name_relation |-> <<>>]

\* A database that holds a name of an earlier import.
StaleTables ==
    [EmptyTables EXCEPT
        !.name = <<[num |-> 9, text |-> <<"M", "a", "l", "e", "a">>,
                    reference_id |-> 0]>>]

\* The files of a snapshot.  num is the identifier of a row (of the name,
\* in TypeMaterial.tsv and NameRelation.tsv), text its string column, 0 no
\* value.  The two rows of Reference.tsv are equal once cleaned; the
\* second row of NameRelation.tsv names a name that Name.tsv has not.
SnapshotA ==
    [reference |-> <<[num |-> 1, text |-> <<"a", " ", "a">>],
                     [num |-> 1, text |-> <<"a", " ", " ", "a", " ">>]>>,
     name |-> <<[num |-> 1, text |-> <<"A", "l", "n", "e", "a">>,
                 reference_id |-> 1],
                [num |-> 2, text |-> <<"A", "l", "m", "a">>,
                 reference_id |-> 0]>>,
     taxon |-> <<[num |-> 1, name_id |-> 1, text |-> <<"l">>],
                 [num |-> 2, name_id |-> 2, text |-> <<"l">>]>>,
     type_material |-> <<[num |-> 1, text |-> <<"a", "\t", "a">>]>>,
     name_relation |-> <<[num |-> 2, related |-> 1, text |-> <<"l">>],
                         [num |-> 2, related |-> 3, text |-> <<"l">>]>>]

\* A snapshot whose NameRelation.tsv has no row between two of its names.
SnapshotB ==
    [SnapshotA EXCEPT
        !.name_relation = <<[num |-> 2, related |-> 3, text |-> <<"l">>]>>]

Snapshots == {SnapshotA, SnapshotB}

\* rankedlineage.dmp, the rows of phylum Streptophyta: tax_id by tax_name.
TaxIdOf(tax_name) == IF tax_name = <<"l">> THEN 7 ELSE 0

\* How a call of import_data ends: by returning the numbers of rows
\* inserted, or raising.  The returned dict has no entry for the location
\* table.
NoCounts ==
    [reference |-> 0, family |-> 0, name |-> 0, type_material |-> 0,
     name_relation |-> 0]

ImportReturned(counts) == [kind |-> "returned", error |-> "", counts |-> counts]

ImportRaised(error) == [kind |-> "raised", error |-> error, counts |-> NoCounts]

\* What a call leaves behind.
ImportEnd(self, db, zip, taxtree, folder, result) ==
    [manager |-> self, tables |-> db, zip_file |-> zip,
     taxtree_file |-> taxtree, data_folder |-> folder, result |-> result]

\* pd.read_csv and get_cleaned_and_standardized_dataframe on a file.
CleanedFile(rows) ==
    GetCleanedAndStandardizedDataframe([columns |-> <<>>, rows |-> rows]).rows

\* The primary keys of rows are distinct.
UniqueKeys(rows) ==
    \A j, k \in 1..Len(rows) : rows[j].num = rows[k].num => j = k

\* DEFAULT_PATH_UNZIPPED_DATA_FOLDER
DefaultFolder == "data/unzipped"

\* ipni DbManager.import_model_data on each file of file_table_map.
IpniTables(files) ==
    [EmptyTables EXCEPT
        !.reference = CleanedFile(files.reference),
        !.name = CleanedFile(files.name),
        !.taxon = CleanedFile(files.taxon),
        !.type_material = CleanedFile(files.type_material),
        !.name_relation = CleanedFile(files.name_relation)]

\* ipni DbManager.import_data: self the manager, db the tables, files the
\* snapshot, zip and folder whether the zip file and the unzipped folder
\* exist, net whether a download succeeds.
IpniImportData(self, db, files, zip, taxtree, folder, net) ==
    LET fetch == self.path_data_folder = ""
        download == fetch /\ (self.force_download \/ ~zip)
        zip1 == zip \/ download
        folder1 == folder \/ fetch
        self1 == IF fetch
                 THEN [self EXCEPT !.path_data_folder = DefaultFolder]
                 ELSE self
    IN  IF download /\ ~net
        THEN ImportEnd(self, db, zip, taxtree, folder, ImportRaised("URLError"))
        ELSE IF self1.path_data_folder = DefaultFolder /\ ~folder1
        THEN ImportEnd(self1, EmptyTables, zip1, taxtree, folder1,
                       ImportRaised("FileNotFoundError"))
        ELSE ImportEnd(self1, IpniTables(files), zip1, taxtree,
                       IF self1.path_data_folder = DefaultFolder
                       THEN FALSE ELSE folder1,
                       ImportReturned(NoCounts))

\* One row of rows per different value of the cell, numbered from 1 in the
\* order of first occurrence.
Numbered(cells) ==
    LET distinct == DropDuplicates(cells)
    IN  [k \in 1..Len(distinct) |-> [num |-> k, text |-> distinct[k]]]

\* The number Numbered gives cell, 0 if none.
NumberOf(numbered, cell) ==
    IF \E k \in 1..Len(numbered) : numbered[k].text = cell
    THEN CHOOSE k \in 1..Len(numbered) : numbered[k].text = cell
    ELSE 0

\* df_name.merge(df_name_family, how="left", on="id"): a name row for every
\* family Taxon.tsv gives the name, one without family if it gives none.
RECURSIVE MergeFamilies(_, _, _)
MergeFamilies(names, pairs, families) ==
    IF names = <<>> THEN <<>>
    ELSE LET row == Head(names)
             mine == SelectSeq(pairs, LAMBDA p : p.id = row.num)
             merged ==
                 IF mine = <<>>
                 THEN <<[num |-> row.num, text |-> row.text,
                         reference_id |-> row.reference_id,
                         family_id |-> 0, tax_id |-> TaxIdOf(row.text)]>>
                 ELSE [k \in 1..Len(mine) |->
                          [num |-> row.num, text |-> row.text,
                           reference_id |-> row.reference_id,
                           family_id |-> NumberOf(families, mine[k].family),
                           tax_id |-> TaxIdOf(row.text)]]
         IN  merged \o MergeFamilies(Tail(names), pairs, families)

\* The identifiers rows have.
KeysOf(rows) == {rows[k].num : k \in 1..Len(rows)}

\* get_dataframe on the four files it reads.
Cleaned(files) ==
    [t \in {"reference", "name", "type_material", "name_relation"} |->
        CleanedFile(files[t])]

\* The pairs of family and name of Taxon.tsv, as the file has them.
DfNameidFamily(files) ==
    DropDuplicates([k \in 1..Len(files.taxon) |->
                       [family |-> files.taxon[k].text,
                        id |-> files.taxon[k].name_id]])

\* The inserts of biokb_ipni DbManager.import_data in their order, each
\* with the exception that get_dataframe or to_sql raises in its place:
\* ValueError for a file without rows, IntegrityError for a primary key
\* twice or a foreign key without its row.  cleaned are the files read,
\* rows the frames inserted.
Inserts(cleaned, rows) ==
    <<[table |-> "reference", rows |-> rows.reference,
       error |-> IF cleaned.reference = <<>> THEN "ValueError"
                 ELSE IF ~UniqueKeys(rows.reference)
                 THEN "IntegrityError" ELSE ""],
      [table |-> "family", rows |-> rows.family, error |-> ""],
      [table |-> "name", rows |-> rows.name,
       error |-> IF cleaned.name = <<>> THEN "ValueError"
                 ELSE IF \/ ~UniqueKeys(rows.name)
                         \/ \E k \in 1..Len(rows.name) :
                               rows.name[k].reference_id
                                  \notin KeysOf(rows.reference) \cup {0}
                 THEN "IntegrityError" ELSE ""],
      [table |-> "location", rows |-> rows.location,
       error |-> IF cleaned.type_material = <<>> THEN "ValueError" ELSE ""],
      [table |-> "type_material", rows |-> rows.type_material,
       error |-> IF \E k \in 1..Len(rows.type_material) :
                       rows.type_material[k].num \notin KeysOf(rows.name)
                 THEN "IntegrityError" ELSE ""],
      [table |-> "name_relation", rows |-> rows.name_relation,
       error |-> IF rows.name_relation = <<>> THEN "ValueError" ELSE ""]>>

\* The inserts run in order on db up to the first that raises.
RECURSIVE InsertAll(_, _)
InsertAll(db, inserts) ==
    IF inserts = <<>> THEN [tables |-> db, error |-> ""]
    ELSE IF Head(inserts).error # ""
    THEN [tables |-> db, error |-> Head(inserts).error]
    ELSE InsertAll([db EXCEPT ![Head(inserts).table] = Head(inserts).rows],
                   Tail(inserts))

\* imported: the number of rows of every insert but that into location.
Imported(db) ==
    [reference |-> Len(db.reference), family |-> Len(db.family),
     name |-> Len(db.name), type_material |-> Len(db.type_material),
     name_relation |-> Len(db.name_relation)]

\* The tables the inserts left and how the load ended.
LoadEnd(done) ==
    [tables |-> done.tables,
     result |-> IF done.error # "" THEN ImportRaised(done.error)
                ELSE ImportReturned(Imported(done.tables))]

\* The frames of the six inserts: families and locations are the numbered
\* families of Taxon.tsv and localities of TypeMaterial.tsv; a name has
\* the number of its family, a type material that of its locality; of the
\* name relations those between two names of Name.tsv are kept.
InsertedFrames(cleaned, pairs, name_ids, families, locations) ==
    [reference |-> cleaned.reference,
     family |-> [k \in 1..Len(families) |->
                    [num |-> k, text |-> families[k].text,
                     tax_id |-> TaxIdOf(families[k].text)]],
     name |-> MergeFamilies(cleaned.name, pairs, families),
     location |-> locations,
     type_material |->
         [k \in 1..Len(cleaned.type_material) |->
             [num |-> cleaned.type_material[k].num,
              location_id |->
                  NumberOf(locations, cleaned.type_material[k].text)]],
     name_relation |->
         SelectSeq(cleaned.name_relation,
                   LAMBDA r : r.related \in name_ids /\ r.num \in name_ids)]

\* The inserts of the frames, run on the tables recreate_db left.
LoadFrames(cleaned, pairs, name_ids, families, locations) ==
    LoadEnd(InsertAll(EmptyTables,
        Inserts(cleaned,
            InsertedFrames(cleaned, pairs, name_ids, families, locations))))

\* The files read: cleaned by get_dataframe, Taxon.tsv as it is.
LoadCleaned(cleaned, pairs, name_ids) ==
    LoadFrames(cleaned, pairs, name_ids,
               Numbered([k \in 1..Len(pairs) |-> pairs[k].family]),
               Numbered([k \in 1..Len(cleaned.type_material) |->
                            cleaned.type_material[k].text]))

\* A variant of BiokbLoad that keeps every row of NameRelation.tsv.
BiokbLoadUnfiltered(files) ==
    LoadCleaned(Cleaned(files), DfNameidFamily(files),
                KeysOf(files.name) \cup KeysOf(files.name_relation)
                \cup {files.name_relation[k].related :
                          k \in 1..Len(files.name_relation)})

\* biokb_ipni DbManager.import_data from the first to_sql to the last.
BiokbLoad(files) ==
    LoadCleaned(Cleaned(files), DfNameidFamily(files), KeysOf(files.name))

\* biokb_ipni DbManager.import_data around the load: a download that fails
\* leaves the tables dropped and created; shutil.rmtree on the zip file,
\* which is no directory, raises.
BiokbEnd(self, zip, taxtree, folder, net, force_download, keep_files, loaded) ==
    IF (force_download \/ ~taxtree) /\ ~net
    THEN ImportEnd(self, EmptyTables, zip, taxtree, folder,
                   ImportRaised("URLError"))
    ELSE IF (force_download \/ ~zip) /\ ~net
    THEN ImportEnd(self, EmptyTables, zip, TRUE, folder,
                   ImportRaised("URLError"))
    ELSE IF loaded.result.kind = "raised" \/ keep_files
    THEN ImportEnd(self, loaded.tables, TRUE, TRUE, folder, loaded.result)
    ELSE ImportEnd(self, loaded.tables, TRUE, TRUE, folder,
                   ImportRaised("NotADirectoryError"))

\* biokb_ipni DbManager.import_data(force_download=force, keep_files=keep):
\* the tables are dropped and created first; both zip files are fetched if
\* asked for or missing; the files are loaded; the zip file is removed
\* unless keep_files.
BiokbImportData(self, db, files, zip, taxtree, folder, net, force, keep) ==
    BiokbEnd(self, zip, taxtree, folder, net, force, keep, BiokbLoad(files))

\* The parameters of biokb_ipni DbManager.import_data.
ImportDataParams == {"force_download", "keep_files"}

\* The value of parameter name in a call with keyword arguments kwargs;
\* both parameters default to False.
Argument(kwargs, name) == IF name \in DOMAIN kwargs THEN kwargs[name] ELSE FALSE

\* dbm.import_data(**kwargs): a keyword that is no parameter raises
\* TypeError before the body runs.
CallImportData(kwargs, net) ==
    IF ~(DOMAIN kwargs \subseteq ImportDataParams)
    THEN ImportEnd(manager, tables, zip_file, taxtree_file, data_folder,
                   ImportRaised("TypeError"))
    ELSE BiokbImportData(manager, tables, source, zip_file, taxtree_file,
                         data_folder, net,
                         Argument(kwargs, "force_download"),
                         Argument(kwargs, "keep_files"))

\* The managers: DbManager() of biokb_ipni, and DbManager of ipni with the
\* default folder or the folder of the tests, with or without
\* force_download.
Managers ==
    {[package |-> "biokb_ipni", path_data_folder |-> "", force_download |-> FALSE]}
    \cup
    [package : {"ipni"}, path_data_folder : {"", "tests/data"},
     force_download : BOOLEAN]

\* What reply and imports record of a call: who called, with what, whether
\* a download could succeed, the tables before and after, and the end;
\* status is the HTTP status or the exit status, statuses[1] after a
\* return and statuses[2] after an exception.
CallRecord(via, kwargs, net, statuses, out) ==
    [via |-> via, kwargs |-> kwargs, net |-> net,
     status |-> IF out.result.kind = "returned"
                THEN statuses[1] ELSE statuses[2],
     before |-> tables, after |-> out.tables, result |-> out.result]

\* The state a call leaves and its record.
Finish(out, record) ==
    /\ tables' = out.tables
    /\ zip_file' = out.zip_file
    /\ taxtree_file' = out.taxtree_file
    /\ data_folder' = out.data_folder
    /\ manager' = out.manager
    /\ reply' = record
    /\ imports' = Append(imports, record)
    /\ UNCHANGED <<source, load, cascade_vars, concurrent_vars, frame_vars,
                   page_vars>>

\* A call that ended as out.
Called(via, kwargs, net, statuses, out) ==
    Finish(out, CallRecord(via, kwargs, net, statuses, out))

\* No call yet.
NoCall ==
    [via |-> "none", kwargs |-> <<>>, net |-> TRUE, status |-> 0,
     before |-> EmptyTables, after |-> EmptyTables,
     result |-> ImportRaised("")]

ImportInit ==
    /\ IdleCall("import")
    /\ NoRequests /\ NoFrame /\ NoSearch
    /\ tables \in {EmptyTables, StaleTables}
    /\ source \in Snapshots
    /\ zip_file \in BOOLEAN
    /\ taxtree_file \in BOOLEAN
    /\ data_folder \in BOOLEAN
    /\ manager \in Managers
    /\ reply = NoCall
    /\ imports = <<>>
    /\ load = <<>>

\* POST /import_data/ with credentials that verify_credentials refuses:
\* HTTP 401, the handler does not run.
EndpointRefused ==
    /\ manager.package = "biokb_ipni"
    /\ reply' = [NoCall EXCEPT !.via = "endpoint", !.status = 401,
                               !.before = tables, !.after = tables]
    /\ UNCHANGED <<tables, source, zip_file, taxtree_file, data_folder,
                   manager, imports, load>>
    /\ UNCHANGED <<cascade_vars, concurrent_vars, frame_vars, page_vars>>

\* POST /import_data/ with valid credentials: the handler calls
\* dbm.import_data(force_download=..., delete_files=...) and answers every
\* exception with HTTP 500.
EndpointImportData ==
    /\ manager.package = "biokb_ipni"
    /\ Len(imports) < MaxImports
    /\ \E force_download, delete_files, net \in BOOLEAN :
          Called("endpoint",
                 [force_download |-> force_download,
                  delete_files |-> delete_files],
                 net, <<200, 500>>,
                 CallImportData([force_download |-> force_download,
                                 delete_files |-> delete_files], net))

\* The command import-data: the same call; an exception ends the command
\* with a traceback, status 1.
CliImportData ==
    /\ manager.package = "biokb_ipni"
    /\ Len(imports) < MaxImports
    /\ \E force_download, delete_files, net \in BOOLEAN :
          Called("cli",
                 [force_download |-> force_download,
                  delete_files |-> delete_files],
                 net, <<0, 1>>,
                 CallImportData([force_download |-> force_download,
                                 delete_files |-> delete_files], net))

\* The function import_data of db/manager.py:
\* DbManager(engine).import_data(force_download=..., keep_files=...)
FunctionImportData ==
    /\ manager.package = "biokb_ipni"
    /\ Len(imports) < MaxImports
    /\ \E force_download, keep_files, net \in BOOLEAN :
          Called("function",
                 [force_download |-> force_download, keep_files |-> keep_files],
                 net, <<0, 0>>,
                 CallImportData([force_download |-> force_download,
                                 keep_files |-> keep_files], net))

\* import_data() on the DbManager object of the ipni package.
IpniManagerImportData ==
    /\ manager.package = "ipni"
    /\ Len(imports) < MaxImports
    /\ \E net \in BOOLEAN :
          Called("ipni", <<>>, net, <<0, 0>>,
                 IpniImportData(manager, tables, source, zip_file,
                                taxtree_file, data_folder, net))

ImportNext ==
    \/ EndpointRefused
    \/ EndpointImportData
    \/ CliImportData
    \/ FunctionImportData
    \/ IpniManagerImportData

ImportSpec == ImportInit /\ [][ImportNext]_vars

(***************************************************************************)
(* main.py: a paginated search                                             *)
(***************************************************************************)

\* The rows of the name relation table at most.
MaxRelations == 4

\* OffsetLimit.limit: Field(le=100)
LimitCap == 100

\* OffsetLimit.limit when the request names none
DefaultLimit == 10

\* OffsetLimit.offset when the request names none
DefaultOffset == 0

\* The limits requests carry: OffsetLimit puts no lower bound on limit.
Limits == {-1, 0, 1, 2, DefaultLimit, LimitCap, LimitCap + 1}

\* The offsets requests carry: OffsetLimit puts no bound on offset.
Offsets == {-1, DefaultOffset, 1, 2, MaxRelations + 1}

\* The types of relation the rows have; "any" in a request is no type.
RelationTypes == {"BASIONYM", "SPELLING_CORRECTION"}

\* The databases CONNECTION_STR can name: SQLite is the default.
Dialects == {"sqlite", "postgresql"}

\* The name relation tables: row k has id k.
RelationTables ==
    UNION {{[k \in 1..n |-> [id |-> k, type |-> t[k]]] :
               t \in [1..n -> RelationTypes]} : n \in 0..MaxRelations}

\* stmt.where(*filters): the rows the statement selects, in table order.
Filtered(rows, type) ==
    SelectSeq(rows, LAMBDA row : type = "any" \/ row.type = type)

\* LIMIT l OFFSET o as SQLite runs it: a negative offset is no offset and a
\* negative limit is no limit.
OffsetLimitRows(rows, o, l) ==
    LET first == Max(o, 0) + 1
        last == IF l < 0 THEN Len(rows) ELSE Min(Len(rows), first + l - 1)
    IN  SubSeq(rows, first, last)

\* How a search ends.
SearchReply(kind, total, rows) ==
    [kind |-> kind, count |-> total, results |-> rows,
     offset |-> search.offset, limit |-> search.limit]

PageInit ==
    /\ IdleCall("search")
    /\ NoRequests /\ NoFrame
    /\ tables \in RelationTables
    /\ search \in [limit : Limits, offset : Offsets,
                   type : RelationTypes \cup {"any"}, dialect : Dialects]
    /\ server = <<>>
    /\ source = <<>>
    /\ zip_file = FALSE
    /\ taxtree_file = FALSE
    /\ data_folder = FALSE
    /\ manager = <<>>
    /\ reply = SearchReply("pending", 0, <<>>)
    /\ imports = <<>>
    /\ load = <<>>

\* search_name_relations: a limit above the cap does not pass the schema;
\* PostgreSQL refuses a negative LIMIT or OFFSET; otherwise the count and
\* the page are fetched.
SearchNameRelations ==
    /\ pc = "search"
    /\ LET stmt == Filtered(tables, search.type)
       IN  reply' =
               IF search.limit > LimitCap
               THEN SearchReply("rejected", 0, <<>>)
               ELSE IF search.dialect = "postgresql"
                       /\ (search.limit < 0 \/ search.offset < 0)
               THEN SearchReply("error", 0, <<>>)
               ELSE SearchReply("ok", Len(stmt),
                                OffsetLimitRows(stmt, search.offset, search.limit))
    /\ pc' = "done"
    /\ UNCHANGED <<call_vars, concurrent_vars, frame_vars, page_vars>>
    /\ UNCHANGED <<tables, source, zip_file, taxtree_file, data_folder,
                   manager, imports, load>>

PageNext == SearchNameRelations

PageSpec == PageInit /\ [][PageNext]_vars

(***************************************************************************)
(* The API server: run-server, verify_credentials and the endpoints of     *)
(* the database management                                                 *)
(***************************************************************************)

\* The server answers at most MaxServed requests.
MaxServed == 2

\* The user names and passwords of the model; "admin" is the default of
\* both.
ApiWords == {"admin", "kew", "ipni"}

\* A variable the environment does not hold.
Unset == "<unset>"

\* os.environ when the program starts.
Environments ==
    [IPNI_API_USERNAME : {Unset, "kew"}, IPNI_API_PASSWORD : {Unset, "ipni"},
     API_USER : {Unset}, API_PASSWORD : {Unset}]

\* os.environ.get(key, default)
EnvironGet(environ, key, default) ==
    IF environ[key] = Unset THEN default ELSE environ[key]

\* USERNAME = os.environ.get("IPNI_API_USERNAME", "admin"), evaluated when
\* biokb_ipni.api.main is imported, which cli.py does at its top.
ModuleUsername(environ) == EnvironGet(environ, "IPNI_API_USERNAME", "admin")

\* PASSWORD = os.environ.get("IPNI_API_PASSWORD", "admin")
ModulePassword(environ) == EnvironGet(environ, "IPNI_API_PASSWORD", "admin")

\* No request has been answered.
NoResponse ==
    [path |-> "", username |-> "", password |-> "", status |-> 0,
     detail |-> "", zip |-> FALSE, importer |-> "none"]

\* The response to a request: the credentials it presented, the status and
\* the detail of the answer, whether the zipped TTL file existed, and what
\* became of Neo4jImporter.import_ttls ("none" when it was not called).
Response(path, username, password, status, detail, importer) ==
    [path |-> path, username |-> username, password |-> password,
     status |-> status, detail |-> detail, zip |-> server.ttls_zip,
     importer |-> importer]

\* verify_credentials: both comparisons must hold.
VerifyCredentials(username, password) ==
    /\ username = server.USERNAME
    /\ password = server.PASSWORD

\* raise HTTPException(status_code=401, detail="Invalid credentials", ...)
Unauthorized(path, username, password) ==
    Response(path, username, password, 401, "Invalid credentials", "none")

\* The keyword arguments of the handler's call of DbManager.import_data.
EndpointKwargs == {"force_download", "delete_files"}

\* import_data of the API: the call of dbm.import_data with a keyword the
\* method does not have raises TypeError, which the handler answers with
\* status 500.
ImportDataResponse(username, password) ==
    IF EndpointKwargs \subseteq ImportDataParams
    THEN Response("/import_data/", username, password, 200, "", "none")
    ELSE Response("/import_data/", username, password, 500,
                  "Error importing data.", "none")

\* get_report: TurtleCreator has no method create_ttls, the call raises
\* AttributeError; an existing file is sent when force_create is false.
ExportTtlsResponse(username, password, force_create) ==
    IF ~server.ttls_zip \/ force_create
    THEN Response("/export_ttls/", username, password, 500,
                  "Error generating TTL files. Data already imported?", "none")
    ELSE Response("/export_ttls/", username, password, 200, "", "none")

\* detail of the HTTPException raised when the zipped TTL file is missing
ZipNotFound == "Zipped TTL files not found."

\* import_neo4j: the HTTPException of the missing file is raised inside the
\* try block and `except Exception` catches it, HTTPException being an
\* Exception: the answer is status 500 with the text of the caught
\* exception in its detail.  Otherwise Neo4jImporter.import_ttls runs and
\* completes or raises.
ImportNeo4jResponse(username, password, completes) ==
    IF ~server.ttls_zip
    THEN Response("/import_neo4j/", username, password, 500,
                  "Error importing data into Neo4j: 405: " \o ZipNotFound, "none")
    ELSE IF completes
    THEN Response("/import_neo4j/", username, password, 200, "", "completed")
    ELSE Response("/import_neo4j/", username, password, 500,
                  "Error importing data into Neo4j", "failed")

\* The program starts: cli.py imports biokb_ipni.api.main, which reads the
\* credentials from the environment.
ServerInit ==
    /\ IdleCall("cli")
    /\ NoRequests /\ NoImport /\ NoFrame
    /\ search = <<>>
    /\ \E environ \in Environments, ttls_zip \in BOOLEAN :
           server = [environ |-> environ,
                     USERNAME |-> ModuleUsername(environ),
                     PASSWORD |-> ModulePassword(environ),
                     ttls_zip |-> ttls_zip,
                     served |-> 0,
                     response |-> NoResponse]

\* The server's state after a request.
Served(response) ==
    /\ server' = [server EXCEPT !.served = @ + 1, !.response = response]
    /\ UNCHANGED <<search, cascade_vars, concurrent_vars, import_vars, frame_vars>>

\* run-server --user U --password P: the two values are stored in the
\* environment as API_USER and API_PASSWORD, then uvicorn serves the app of
\* the module that is already imported.
RunServer ==
    /\ pc = "cli"
    /\ \E user, password \in ApiWords :
           server' = [server EXCEPT !.environ.API_USER = user,
                                    !.environ.API_PASSWORD = password]
    /\ pc' = "serving"
    /\ UNCHANGED <<search, call_vars, concurrent_vars, import_vars, frame_vars>>

\* POST /import_data/
RequestImportData ==
    /\ pc = "serving"
    /\ server.served < MaxServed
    /\ \E username, password \in ApiWords :
           Served(IF VerifyCredentials(username, password)
                  THEN ImportDataResponse(username, password)
                  ELSE Unauthorized("/import_data/", username, password))

\* GET /export_ttls/
RequestExportTtls ==
    /\ pc = "serving"
    /\ server.served < MaxServed
    /\ \E username, password \in ApiWords, force_create \in BOOLEAN :
           Served(IF VerifyCredentials(username, password)
                  THEN ExportTtlsResponse(username, password, force_create)
                  ELSE Unauthorized("/export_ttls/", username, password))

\* GET /import_neo4j/
RequestImportNeo4j ==
    /\ pc = "serving"
    /\ server.served < MaxServed
    /\ \E username, password \in ApiWords, completes \in BOOLEAN :
           Served(IF VerifyCredentials(username, password)
                  THEN ImportNeo4jResponse(username, password, completes)
                  ELSE Unauthorized("/import_neo4j/", username, password))

ServerNext ==
    \/ RunServer
    \/ RequestImportData
    \/ RequestExportTtls
    \/ RequestImportNeo4j

ServerSpec == ServerInit /\ [][ServerNext]_vars

(***************************************************************************)
(* parse_date, mapped over the col:date column of TypeMaterial.tsv         *)
(***************************************************************************)

\* The decimal digits and their values.
DigitValue ==
    [c \in {"0", "1", "2", "3", "4", "5", "6", "7", "8", "9"} |->
        CASE c = "0" -> 0 [] c = "1" -> 1 [] c = "2" -> 2 [] c = "3" -> 3
          [] c = "4" -> 4 [] c = "5" -> 5 [] c = "6" -> 6 [] c = "7" -> 7
          [] c = "8" -> 8 [] c = "9" -> 9]

\* \d
IsDigit(c) == c \in DOMAIN DigitValue

\* int(s) for a string of digits
RECURSIVE IntOf(_)
IntOf(s) ==
    IF s = <<>> THEN 0
    ELSE 10 * IntOf(SubSeq(s, 1, Len(s) - 1)) + DigitValue[s[Len(s)]]

\* The number of digits of s from position i on, up to the first character
\* that is not a digit.
RECURSIVE DigitRun(_, _)
DigitRun(s, i) ==
    IF i > Len(s) \/ ~IsDigit(s[i]) THEN 0 ELSE 1 + DigitRun(s, i + 1)

\* re.search(r"^(?P<year>\d{2,4})-(?P<month>\d{1,2})(-(?P<day>\d{1,2}))?",
\* date): the year is a run of two to four digits that a hyphen follows,
\* the month the next one or two digits (two when there are two), the day,
\* when a hyphen and a digit follow the month, the next one or two digits.
\* A group that took no part in the match is the empty string here.
DateMatch(s) ==
    LET ylen == DigitRun(s, 1)
        mrun == DigitRun(s, ylen + 2)
        mlen == Min(2, mrun)
        dat == ylen + 1 + mlen + 1
        drun == IF dat <= Len(s) /\ s[dat] = "-" THEN DigitRun(s, dat + 1) ELSE 0
        dlen == Min(2, drun)
    IN  IF ylen \in 2..4 /\ ylen + 1 <= Len(s) /\ s[ylen + 1] = "-" /\ mrun >= 1
        THEN [found |-> TRUE,
              year |-> SubSeq(s, 1, ylen),
              month |-> SubSeq(s, ylen + 2, ylen + 1 + mlen),
              day |-> SubSeq(s, dat + 1, dat + dlen)]
        ELSE [found |-> FALSE, year |-> <<>>, month |-> <<>>, day |-> <<>>]

\* calendar: a year is a leap year when 4 divides it and 100 does not, or
\* 400 does.
IsLeap(year) == year % 4 = 0 /\ (year % 100 # 0 \/ year % 400 = 0)

\* The number of days of a month.
DaysInMonth(year, month) ==
    IF month = 2 THEN (IF IsLeap(year) THEN 29 ELSE 28)
    ELSE IF month \in {4, 6, 9, 11} THEN 30
    ELSE 31

\* pd.NaT
NaT == [kind |-> "NaT", year |-> 0, month |-> 0, day |-> 0]

\* No cell has been parsed.
NotParsed == [kind |-> "none", year |-> 0, month |-> 0, day |-> 0]

\* datetime.date(year, month, day): ValueError unless the year is in
\* 1..9999, the month in 1..12 and the day a day of that month.
NewDate(year, month, day) ==
    IF /\ year \in 1..9999
       /\ month \in 1..12
       /\ day \in 1..DaysInMonth(year, month)
    THEN [kind |-> "date", year |-> year, month |-> month, day |-> day]
    ELSE [kind |-> "ValueError", year |-> year, month |-> month, day |-> day]

\* parse_date(date)
ParseDate(cell) ==
    IF cell.missing THEN NaT
    ELSE LET found == DateMatch(cell.text)
             year == IntOf(found.year)
             month == IntOf(found.month)
             day == IF found.day # <<>> THEN IntOf(found.day) ELSE 1
         IN  IF found.found
             THEN NewDate(year, month, IF month = 2 /\ day > 28 THEN 28 ELSE day)
             ELSE NaT

\* The cells of the column: a missing value (NaN) or a string made of a
\* run of digits, a hyphen, a run of digits, an end that may hold a day,
\* and a rest.
DateCells ==
    {[missing |-> TRUE, text |-> <<>>]}
    \cup
    {[missing |-> FALSE, text |-> y \o m \o d \o rest] :
        y \in {<<>>, <<"7">>, <<"9", "9">>, <<"0", "0">>, <<"8", "7", "6">>,
               <<"1", "9", "0", "0">>, <<"2", "0", "2", "4">>,
               <<"1", "9", "0", "0", "1">>},
        m \in {<<>>, <<"-">>, <<"-", "0">>, <<"-", "2">>, <<"-", "0", "4">>,
               <<"-", "1", "2">>, <<"-", "1", "3">>, <<"-", "1", "2", "3">>,
               <<"/", "1", "2">>},
        d \in {<<>>, <<"-">>, <<"-", "0">>, <<"-", "1">>, <<"-", "2", "8">>,
               <<"-", "2", "9">>, <<"-", "3", "0">>, <<"-", "3", "1">>,
               <<"-", "3", "1", "1">>},
        rest \in {<<>>, <<"T">>}}

DateInit ==
    /\ IdleCall("parse")
    /\ NoRequests /\ NoImport /\ NoSearch
    /\ df = EmptyFrame /\ df_new = EmptyFrame
    /\ \E cell \in DateCells : date = [value |-> cell, result |-> NotParsed]

\* df["col:date"].map(parse_date), for one cell.
ParseCell ==
    /\ pc = "parse"
    /\ date' = [date EXCEPT !.result = ParseDate(date.value)]
    /\ pc' = "done"
    /\ UNCHANGED <<df, df_new, call_vars, concurrent_vars, import_vars, page_vars>>

DateNext == ParseCell

DateSpec == DateInit /\ [][DateNext]_vars

(***************************************************************************)
(* db/manager.py: import_data of biokb_ipni, one statement at a time       *)
(***************************************************************************)

\* The foreign keys of the tables: the column that holds the key and the
\* table whose id it is.  A type material and a name relation have the id
\* of their name in num.
ForeignKeysOf ==
    [reference |-> {},
     family |-> {},
     location |-> {},
     name |-> {[column |-> "reference_id", table |-> "reference"],
               [column |-> "family_id", table |-> "family"]},
     type_material |-> {[column |-> "num", table |-> "name"],
                        [column |-> "location_id", table |-> "location"]},
     name_relation |-> {[column |-> "num", table |-> "name"],
                        [column |-> "related", table |-> "name"]}]

\* The files a load reads: each as SnapshotA has it, or without rows
\* (Reference.tsv, Taxon.tsv), with a name whose reference no row of
\* Reference.tsv is, with a type material of a name Name.tsv has not, with
\* no relation between two names of Name.tsv.
LoadSnapshots ==
    [reference : {SnapshotA.reference, <<>>},
     name : {SnapshotA.name,
             [SnapshotA.name EXCEPT ![2].reference_id = 5]},
     taxon : {SnapshotA.taxon, <<>>},
     type_material : {SnapshotA.type_material,
                      <<[num |-> 3, text |-> <<"a">>]>>},
     name_relation : {SnapshotA.name_relation, SnapshotB.name_relation}]

\* The inserts of import_data on the files, in the order of the method.
SourceInserts(files) ==
    LET cleaned == Cleaned(files)
        pairs == DfNameidFamily(files)
    IN  Inserts(cleaned,
            InsertedFrames(cleaned, pairs, KeysOf(files.name),
                Numbered([k \in 1..Len(pairs) |-> pairs[k].family]),
                Numbered([k \in 1..Len(cleaned.type_material) |->
                             cleaned.type_material[k].text])))

\* A variant of NextInsert that runs the inserts from the last to the
\* first.
NextInsertReversed(inserts, step) == inserts[Len(inserts) - step]

\* The statement that runs after step inserts have run.
NextInsert(inserts, step) == inserts[step + 1]

\* The call has not ended.
Running == [kind |-> "running", error |-> "", counts |-> NoCounts]

\* DbManager(engine).import_data(keep_files=...) is called with both zip
\* files on disk, so that nothing is downloaded.
LoadInit ==
    /\ IdleCall("recreate")
    /\ NoRequests /\ NoFrame /\ NoSearch
    /\ tables \in {EmptyTables, StaleTables}
    /\ source \in LoadSnapshots
    /\ zip_file = TRUE
    /\ taxtree_file = TRUE
    /\ data_folder = FALSE
    /\ manager = [package |-> "biokb_ipni", path_data_folder |-> "",
                  force_download |-> FALSE]
    /\ reply = NoCall
    /\ imports = <<>>
    /\ \E keep_files \in BOOLEAN :
           load = [keep_files |-> keep_files, step |-> 0, inserted |-> <<>>,
                   result |-> Running]

\* What a step of the load leaves alone.
LoadStep ==
    UNCHANGED <<source, zip_file, taxtree_file, data_folder, manager, reply,
                imports, call_vars, concurrent_vars, frame_vars, page_vars>>

\* self.recreate_db(): drop_all and create_all.
RecreateDb ==
    /\ pc = "recreate"
    /\ tables' = EmptyTables
    /\ pc' = "insert"
    /\ UNCHANGED load
    /\ LoadStep

\* get_dataframe and to_sql of the next table: the rows are in the table
\* when to_sql returns; an exception of either ends the call.
ToSql ==
    /\ pc = "insert"
    /\ LET inserts == SourceInserts(source)
           insert == NextInsert(inserts, load.step)
       IN  IF insert.error # ""
           THEN /\ load' = [load EXCEPT !.result = ImportRaised(insert.error)]
                /\ pc' = "done"
                /\ UNCHANGED tables
           ELSE /\ tables' = [tables EXCEPT ![insert.table] = insert.rows]
                /\ load' = [load EXCEPT
                               !.step = @ + 1,
                               !.inserted = Append(@, insert.table)]
                /\ pc' = IF load.step + 1 = Len(inserts)
                         THEN "remove" ELSE "insert"
    /\ LoadStep

\* if not keep_files: shutil.rmtree(self.path_to_zip_file); return imported
RemoveFiles ==
    /\ pc = "remove"
    /\ load' = [load EXCEPT
                   !.result = IF load.keep_files
                              THEN ImportReturned(Imported(tables))
                              ELSE ImportRaised("NotADirectoryError")]
    /\ pc' = "done"
    /\ UNCHANGED tables
    /\ LoadStep

LoadNext ==
    \/ RecreateDb
    \/ ToSql
    \/ RemoveFiles

LoadSpec == LoadInit /\ [][LoadNext]_vars

(***************************************************************************)
(* Properties                                                              *)
(***************************************************************************)

\* The stage names of the fetches issued by the current call, in order.
StageNames == [k \in 1..Len(stages) |-> stages[k].stage]

\* The positions of the rows whose name is the normalised query.
MatchingRows ==
    {k \in 1..Len(registry) : registry[k].scientific_name = Normalize(query)}

\* The stage whose results the call returned.
ReturningStage == stages[Len(stages)].stage

\* The threshold a result's score had to exceed, in hundredths.
ThresholdOf(r) ==
    CASE r.calculate_with = "metaphone_jaro" -> PhoneticThreshold
      [] r.calculate_with = "pattern_match" -> PatternThreshold
      [] r.calculate_with = "levenshtein" -> EditThreshold
      [] OTHER -> 100

\* C1: when the normalised query is the name of at least one row, the call
\* returns one result per such row, with the row's name and id, tagged exact
\* with similarity 1.0, and the exact fetch is the only fetch it issued.
ExactMatchesReturned ==
    (pc = "done" /\ MatchingRows # {}) =>
        /\ outcome.kind = "list"
        /\ StageNames = <<"exact">>
        /\ Len(outcome.body) = Cardinality(MatchingRows)
        /\ \A k \in MatchingRows :
               \E j \in 1..Len(outcome.body) :
                   outcome.body[j] =
                       [calculate_with |-> "exact",
                        scientific_name |-> registry[k].scientific_name,
                        ipni_id |-> registry[k].id,
                        similarity |-> 100]

\* A call that returned several exact rows for a query that needed
\* normalising.
ExactMatchesWitness ==
    /\ pc = "done"
    /\ Cardinality(MatchingRows) >= 2
    /\ query # Normalize(query)
    /\ outcome.kind = "list"
    /\ Len(outcome.body) >= 2

\* C2: the fetches of a call are issued in the order exact, phonetic,
\* pattern, edit; a stage is started only after every earlier stage kept
\* nothing; a returned list is what the last started stage kept, all of its
\* results carrying that stage's tag.
StagesInOrder ==
    /\ Len(stages) <= 4
    /\ \A k \in 1..Len(stages) :
           /\ stages[k].stage = <<"exact", "phonetic", "pattern", "edit">>[k]
           /\ \A j \in 1..(k - 1) : stages[j].kept = 0
    /\ outcome.kind = "list" =>
           /\ stages # <<>>
           /\ stages[Len(stages)].kept > 0
           /\ Len(outcome.body) <= stages[Len(stages)].kept
           /\ \A j \in 1..Len(outcome.body) :
                  LET r == outcome.body[j]
                  IN  CASE ReturningStage = "exact" ->
                               /\ r.calculate_with = "exact"
                               /\ \E k \in MatchingRows :
                                      registry[k].id = r.ipni_id
                        [] ReturningStage = "phonetic" ->
                               /\ r.calculate_with = "metaphone_jaro"
                               /\ \E i \in 1..Len(phonetic_matches) :
                                      phonetic_matches[i] = r
                        [] ReturningStage = "pattern" ->
                               /\ r.calculate_with = "pattern_match"
                               /\ \E i \in 1..Len(ratios) : ratios[i] = r
                        [] ReturningStage = "edit" ->
                               /\ r.calculate_with = "levenshtein"
                               /\ \E i \in 1..Len(ratios) : ratios[i] = r

\* A call that went through all four stages and returned the last one's
\* results.
StagesInOrderWitness ==
    /\ pc = "done"
    /\ StageNames = <<"exact", "phonetic", "pattern", "edit">>
    /\ outcome.kind = "list"

\* C3: a call with a non-empty normalised query in which no stage kept a
\* result ends in not-found.
NothingKeptIsNotFound ==
    (/\ pc = "done"
     /\ Normalize(query) # <<>>
     /\ \A k \in 1..Len(stages) : stages[k].kept = 0)
        => outcome.kind = "not_found"

\* C4 as stated: an exact result reports 1.0, any other result reports more
\* than its stage's threshold and at most 1.0.
ReportedAboveThreshold ==
    outcome.kind = "list" =>
        \A j \in 1..Len(outcome.body) :
            LET r == outcome.body[j]
            IN  IF r.calculate_with = "exact" THEN r.similarity = 100
                ELSE r.similarity > ThresholdOf(r) /\ r.similarity <= 100

\* C4 as amended: an exact result reports 1.0, any other result reports at
\* least its stage's threshold and at most 1.0.
ReportedAtLeastThreshold ==
    outcome.kind = "list" =>
        \A j \in 1..Len(outcome.body) :
            LET r == outcome.body[j]
            IN  IF r.calculate_with = "exact" THEN r.similarity = 100
                ELSE r.similarity >= ThresholdOf(r) /\ r.similarity <= 100

\* A returned result whose score exceeded the threshold and whose reported
\* similarity is the threshold.
ReportedAtThresholdWitness ==
    /\ outcome.kind = "list"
    /\ \E j \in 1..Len(outcome.body) :
           /\ outcome.body[j].calculate_with = "pattern_match"
           /\ outcome.body[j].similarity = PatternThreshold
           /\ GtHundredths(SequenceRatio(search_for_name,
                                         outcome.body[j].scientific_name),
                           PatternThreshold)

\* C5: a returned list is in non-increasing order of reported similarity,
\* and no result that the phonetic or the Levenshtein stage kept and then
\* cut off reports more than a returned one.
SortedDescending ==
    outcome.kind = "list" =>
        /\ \A j \in 1..(Len(outcome.body) - 1) :
               outcome.body[j].similarity >= outcome.body[j + 1].similarity
        /\ LET kept == IF ReturningStage = "phonetic" THEN phonetic_matches
                       ELSE IF ReturningStage = "edit" THEN ratios
                       ELSE <<>>
               returned == {outcome.body[j].ipni_id : j \in 1..Len(outcome.body)}
           IN  \A i \in 1..Len(kept) :
                   kept[i].ipni_id \notin returned =>
                       \A j \in 1..Len(outcome.body) :
                           kept[i].similarity <= outcome.body[j].similarity

\* A returned phonetic list that was cut off and whose results were not
\* fetched in descending order.
SortedDescendingWitness ==
    /\ outcome.kind = "list"
    /\ ReturningStage = "phonetic"
    /\ Len(phonetic_matches) > Len(outcome.body)
    /\ \E i \in 1..(Len(phonetic_matches) - 1) :
           phonetic_matches[i].similarity < phonetic_matches[i + 1].similarity

\* C6: a list returned by the phonetic stage has at most 30 results.
PhoneticAtMostThirty ==
    (outcome.kind = "list" /\ ReturningStage = "phonetic") =>
        Len(outcome.body) <= 30

\* The phonetic stage kept more than 30 results and returned 30.
PhoneticAtMostThirtyWitness ==
    /\ outcome.kind = "list"
    /\ ReturningStage = "phonetic"
    /\ Len(phonetic_matches) > 30
    /\ Len(outcome.body) = 30

\* C7: a list returned by the Levenshtein stage has at most 3 results.
EditAtMostThree ==
    (outcome.kind = "list" /\ ReturningStage = "edit") =>
        Len(outcome.body) <= 3

\* The Levenshtein stage kept more than 3 results and returned 3.
EditAtMostThreeWitness ==
    /\ outcome.kind = "list"
    /\ ReturningStage = "edit"
    /\ Len(ratios) > 3
    /\ Len(outcome.body) = 3

EmptyQueryIsInvalid ==
    (pc = "done" /\ Normalize(query) = <<>>) => outcome.kind = "invalid_query"

ReturnedTags ==
    {outcome.body[j].calculate_with : j \in 1..Len(outcome.body)}

\* C11 as stated: every returned result is tagged exact, phonetic,
\* pattern_match or edit_distance; the phonetic stage's results are tagged
\* phonetic, the Levenshtein stage's edit_distance, and the results of one
\* response all carry the same tag.
TagsAsStated ==
    outcome.kind = "list" =>
        /\ ReturnedTags \subseteq
               {"exact", "phonetic", "pattern_match", "edit_distance"}
        /\ ReturningStage = "phonetic" => ReturnedTags = {"phonetic"}
        /\ ReturningStage = "edit" => ReturnedTags = {"edit_distance"}
        /\ Cardinality(ReturnedTags) = 1

\* C11 as amended: every returned result carries a tag of the schema (exact,
\* metaphone_jaro, pattern_match, levenshtein); the phonetic stage's results
\* are tagged metaphone_jaro, the Levenshtein stage's levenshtein, and the
\* results of one response all carry the same tag.
TagsOfTheSchema ==
    outcome.kind = "list" =>
        /\ ReturnedTags \subseteq CalculateWith
        /\ ReturningStage = "exact" => ReturnedTags = {"exact"}
        /\ ReturningStage = "phonetic" => ReturnedTags = {"metaphone_jaro"}
        /\ ReturningStage = "pattern" => ReturnedTags = {"pattern_match"}
        /\ ReturningStage = "edit" => ReturnedTags = {"levenshtein"}
        /\ Cardinality(ReturnedTags) = 1

\* The Levenshtein stage returned several results after the pattern stage
\* had fetched rows and kept none of them.
TagsOfTheSchemaWitness ==
    /\ outcome.kind = "list"
    /\ ReturningStage = "edit"
    /\ Len(outcome.body) >= 2
    /\ ReturnedTags = {"levenshtein"}

\* C12: the normalisation is idempotent and canonical: applied to its own
\* result it changes nothing, and its result neither starts nor ends with a
\* whitespace character nor has two whitespace characters side by side.
NormalizeIdempotentCanonical ==
    (pc = "normalize" /\ served >= 1) =>
        /\ search_for_name = Normalize(query)
        /\ Normalize(search_for_name) = search_for_name
        /\ search_for_name # <<>> =>
               /\ ~IsSpace(search_for_name[1])
               /\ ~IsSpace(search_for_name[Len(search_for_name)])
        /\ \A k \in 1..(Len(search_for_name) - 1) :
               ~(IsSpace(search_for_name[k]) /\ IsSpace(search_for_name[k + 1]))

\* The normalisation was applied twice to a string with whitespace at both
\* ends and a run of a space and a tab between two letters.
NormalizeIdempotentWitness ==
    /\ pc = "normalize"
    /\ served = 2
    /\ Len(query) = 5
    /\ IsSpace(query[1]) /\ IsSpace(query[5])
    /\ query[3] = "\t"
    /\ Len(search_for_name) = 3

\* C13: a call whose normalised query has 1, 2 or 3 characters ends in a
\* result list or in not-found, whatever the registry holds (names of one
\* character included).
ShortQueryEndsNormally ==
    (pc = "done" /\ Len(Normalize(query)) \in 1..3) =>
        outcome.kind \in {"list", "not_found"}

\* The positions of the rows whose name starts with the query's first
\* letter, in either case.
FirstLetterPool ==
    {k \in 1..Len(registry) :
        LowerChar(registry[k].scientific_name[1]) = LowerChar(search_for_name[1])}

\* The Jaro-Winkler similarity of the lower-cased query and row k's name.
JaroOf(k) ==
    JaroWinkler(Lower(search_for_name), Lower(registry[k].scientific_name))

\* The larger of JaroOf(k) and the sequence ratio of the same two strings.
MaximumOf(k) ==
    RatMax(JaroOf(k),
           SequenceRatio(Lower(search_for_name),
                         Lower(registry[k].scientific_name)))

SameCode(k) ==
    Metaphone(search_for_name) = Metaphone(registry[k].scientific_name)

\* Row k meets the phonetic stage's condition.
Qualifies(k) ==
    /\ SameCode(k) \/ RatGt(JaroOf(k), Rat(8, 10))
    /\ RatGt(MaximumOf(k), Rat(1, 2))

\* The phonetic stage of the current call has run.
PhoneticStageRan == Len(stages) >= 2

\* The current call returned the phonetic stage's list.
PhoneticStageReturned ==
    pc = "done" /\ Len(stages) = 2 /\ outcome.kind = "list"

\* The returned result for row k, if there is one.
ReturnedFor(k) ==
    {j \in 1..Len(outcome.body) : outcome.body[j].ipni_id = registry[k].id}

\* The phonetic stage kept as many rows as qualify, and a row of the pool
\* with Jaro-Winkler above 0.8 qualifies.
KeptAreTheQualifying ==
    PhoneticStageRan =>
        /\ stages[2].kept =
               Cardinality({k \in FirstLetterPool : Qualifies(k)})
        /\ \A k \in FirstLetterPool :
               RatGt(JaroOf(k), Rat(8, 10)) => Qualifies(k)

\* The positions of the rows the returned list has a result for.
ReturnedRows == {k \in 1..Len(registry) : ReturnedFor(k) # {}}

\* C19 as stated: the phonetic stage returns a row of the first-letter pool
\* if and only if the row qualifies (same metaphone code or Jaro-Winkler
\* above 0.8, and maximum above 0.5) and is among the 30 best by maximum
\* (rows with equal maximum in fetch order): the returned rows qualify,
\* they are 30 or all that qualify, and each of them comes before every
\* qualifying row that was not returned; the reported score is that
\* maximum; a row with Jaro-Winkler above 0.8 always has a maximum above
\* 0.5.
PhoneticReturnsIffExactScore ==
    /\ KeptAreTheQualifying
    /\ PhoneticStageReturned =>
           LET qualifying == {k \in FirstLetterPool : Qualifies(k)}
               returned == ReturnedRows
           IN  /\ returned \subseteq qualifying
               /\ Cardinality(returned) = Min(30, Cardinality(qualifying))
               /\ \A k \in qualifying \ returned : \A j \in returned :
                      \/ RatGt(MaximumOf(j), MaximumOf(k))
                      \/ MaximumOf(j) = MaximumOf(k) /\ j < k
               /\ \A k \in returned : \A j \in ReturnedFor(k) :
                      outcome.body[j].similarity * MaximumOf(k).d =
                          100 * MaximumOf(k).n

\* C19 as amended: the same, with the 30 best taken by the reported score
\* (equal scores in fetch order) and the reported score being the maximum
\* rounded to two decimals.
PhoneticReturnsIff ==
    /\ KeptAreTheQualifying
    /\ PhoneticStageReturned =>
           LET qualifying == {k \in FirstLetterPool : Qualifies(k)}
               returned == ReturnedRows
           IN  /\ returned \subseteq qualifying
               /\ Cardinality(returned) = Min(30, Cardinality(qualifying))
               /\ \A k \in qualifying \ returned : \A j \in returned :
                      \/ Round2(MaximumOf(j)) > Round2(MaximumOf(k))
                      \/ Round2(MaximumOf(j)) = Round2(MaximumOf(k)) /\ j < k
               /\ \A k \in returned : \A j \in ReturnedFor(k) :
                      outcome.body[j].similarity = Round2(MaximumOf(k))

\* The phonetic stage returned a row it accepted on Jaro-Winkler alone,
\* with a score that needed rounding or not, and left out a row of the pool
\* that has the query's metaphone code and a maximum of at most 0.5.
PhoneticReturnsIffWitness ==
    /\ PhoneticStageReturned
    /\ \E k \in FirstLetterPool :
           /\ ~SameCode(k)
           /\ RatGt(JaroOf(k), Rat(8, 10))
           /\ ReturnedFor(k) # {}
    /\ \E k \in FirstLetterPool :
           /\ SameCode(k)
           /\ ~RatGt(MaximumOf(k), Rat(1, 2))
           /\ ReturnedFor(k) = {}

\* The words of a name: its pieces between spaces.
Words(s) == SplitAcc(s, <<>>, <<>>)

\* s starts with t, letters compared ignoring case.
StartsWith(s, t) ==
    Len(t) <= Len(s) /\ Lower(SubSeq(s, 1, Len(t))) = Lower(t)

\* C20: every result of the pattern stage is, for a query of two or more
\* tokens, a name whose first word starts with the first token and whose
\* second word starts with the second token, and for a query of one token
\* a name that starts with the query.
PatternResultsMatchWordPrefixes ==
    (pc = "done" /\ outcome.kind = "list" /\ ReturningStage = "pattern") =>
        \A j \in 1..Len(outcome.body) :
            LET name == outcome.body[j].scientific_name
                words == Words(name)
            IN  IF Len(name_splitted) >= 2
                THEN /\ Len(words) >= 2
                     /\ StartsWith(words[1], name_splitted[1])
                     /\ StartsWith(words[2], name_splitted[2])
                ELSE StartsWith(name, search_for_name)

\* Every call that has ended ended as it would have ended alone.
EachEndsAsAlone ==
    \A r \in DOMAIN requests :
        requests[r].frame.pc = "done" =>
            requests[r].frame.outcome = RunAlone(registry, requests[r].query)

\* C14: whatever the interleaving of the calls' fetches, each call ends as
\* it would have ended running alone, and no step changes the registry.
ConcurrentCallsIndependent ==
    []EachEndsAsAlone /\ [][registry' = registry]_vars

\* Two calls with different queries have ended, each having taken steps
\* while the other was in progress, one with a phonetic list and one with
\* a list of the Levenshtein stage.
ConcurrentCallsWitness ==
    /\ pc = "serving"
    /\ \A r \in DOMAIN requests :
           requests[r].frame.pc = "done" /\ requests[r].overlapped
    /\ \E r \in DOMAIN requests :
           /\ requests[r].frame.outcome.kind = "list"
           /\ requests[r].frame.outcome.body[1].calculate_with = "metaphone_jaro"
    /\ \E r \in DOMAIN requests :
           /\ requests[r].frame.outcome.kind = "list"
           /\ requests[r].frame.outcome.body[1].calculate_with = "levenshtein"

\* The first place of row in rows, 0 if it has none.
FirstPlace(rows, row) ==
    IF \E k \in 1..Len(rows) : rows[k] = row
    THEN CHOOSE k \in 1..Len(rows) :
             rows[k] = row /\ \A j \in 1..(k - 1) : rows[j] # row
    ELSE 0

\* C17: the returned frame has no two equal rows, its rows are exactly the
\* cleaned rows of the input (so input rows that are equal once cleaned
\* yield one row), integer cells are as they came, and the rows stand in
\* the order of their first occurrence in the input.
DuplicatesDroppedAfterCleaning ==
    pc = "done" =>
        LET cleaned == [k \in 1..Len(df.rows) |->
                           [text |-> CleanIfString(df.rows[k].text),
                            num |-> df.rows[k].num]]
            out == df_new.rows
        IN  /\ \A j, k \in 1..Len(out) : out[j] = out[k] => j = k
            /\ {out[k] : k \in 1..Len(out)}
                  = {cleaned[k] : k \in 1..Len(cleaned)}
            /\ \A j, k \in 1..Len(out) :
                   j < k => FirstPlace(cleaned, out[j]) < FirstPlace(cleaned, out[k])

\* A frame was cleaned in which two different rows are equal once cleaned
\* and a third row, with a tab on its own, is not: two rows came back.
DuplicatesDroppedWitness ==
    /\ pc = "done"
    /\ Len(df.rows) = 3
    /\ Len(df_new.rows) = 2
    /\ df.rows[1] # df.rows[3]
    /\ CleanRow(df.rows[1]) = CleanRow(df.rows[3])
    /\ df.rows[2].text = <<"a", "\t", "a">>
    /\ df_new.rows[2].text = <<"a", "\t", "a">>

\* C18: a search whose limit is at most 100 is answered with the rows at
\* positions o .. o+l-1 of the filtered set, min(l, max(0, N - o)) of them,
\* and with count N.
PageHoldsRequestedRows ==
    (pc = "done" /\ search # <<>> /\ search.limit <= LimitCap) =>
        LET stmt == Filtered(tables, search.type)
            N == Len(stmt)
            o == search.offset
            l == search.limit
        IN  /\ reply.kind = "ok"
            /\ reply.count = N
            /\ Len(reply.results) = Min(l, Max(0, N - o))
            /\ \A k \in 1..Len(reply.results) : reply.results[k] = stmt[o + k]

\* C15: a call of the endpoint with valid credentials, or of the command,
\* in which no download fails and the files load, ends with status 200
\* (the command: 0), the numbers of rows inserted and the tables loaded.
EndpointImportSucceeds ==
    \A k \in 1..Len(imports) :
        (/\ imports[k].via \in {"endpoint", "cli"}
         /\ imports[k].net
         /\ BiokbLoad(source).result.kind = "returned")
        => /\ imports[k].status = (IF imports[k].via = "endpoint" THEN 200 ELSE 0)
           /\ imports[k].result = BiokbLoad(source).result
           /\ imports[k].after = BiokbLoad(source).tables

\* The name table without the columns the import adds.
NameColumns(rows) ==
    [k \in 1..Len(rows) |->
        [num |-> rows[k].num, text |-> rows[k].text,
         reference_id |-> rows[k].reference_id]]

\* The tables hold the cleaned rows of the files: for the ipni package
\* every table, for the biokb_ipni package the references, the names and,
\* of the name relations, no other row.
HoldsTheFiles(package, db) ==
    IF package = "ipni" THEN db = IpniTables(source)
    ELSE /\ db.reference = CleanedFile(source.reference)
         /\ NameColumns(db.name) = CleanedFile(source.name)
         /\ \A k \in 1..Len(db.name_relation) :
               \E j \in 1..Len(source.name_relation) :
                   db.name_relation[k] = CleanRow(source.name_relation[j])

\* C16: a call of DbManager.import_data that returns leaves the tables
\* holding the cleaned rows of the files whatever they held before, and a
\* second call right after it, with no download failing, leaves the same
\* tables.
ImportReplacesAndRepeats ==
    \A k \in 1..Len(imports) :
        imports[k].via \in {"function", "ipni"} /\ imports[k].result.kind = "returned"
        => /\ HoldsTheFiles(manager.package, imports[k].after)
           /\ (k < Len(imports) /\ imports[k + 1].net)
                 => imports[k + 1].after = imports[k].after

\* The positions, in the pattern stage's fetch, of the rows whose sequence
\* ratio against the normalised query (letters as typed) is above 0.3.
AbovePatternThreshold ==
    {k \in 1..Len(results) :
        RatGt(SequenceRatio(search_for_name, results[k].scientific_name),
              Rat(3, 10))}

\* C21: a call whose exact and phonetic stages kept nothing and whose
\* pattern stage kept something returns one result, tagged pattern_match,
\* for every fetched row whose sequence ratio against the normalised query
\* (not lower-cased) is above 0.3 and no other result, however many they
\* are, and issues no fetch of the Levenshtein stage.
PatternReturnsAllAboveThreshold ==
    (pc = "done" /\ Len(stages) >= 3 /\ stages[3].kept > 0) =>
        /\ StageNames = <<"exact", "phonetic", "pattern">>
        /\ stages[1].kept = 0 /\ stages[2].kept = 0
        /\ results = LikeLookup(registry, SearchStr(search_for_name, name_splitted))
        /\ outcome.kind = "list"
        /\ Len(outcome.body) = Cardinality(AbovePatternThreshold)
        /\ \A k \in AbovePatternThreshold :
               \E j \in 1..Len(outcome.body) :
                   /\ outcome.body[j].ipni_id = results[k].id
                   /\ outcome.body[j].scientific_name = results[k].scientific_name
                   /\ outcome.body[j].calculate_with = "pattern_match"

\* The pattern stage returned more than 30 results, of two different
\* names.
PatternReturnsAllWitness ==
    /\ pc = "done"
    /\ StageNames = <<"exact", "phonetic", "pattern">>
    /\ outcome.kind = "list"
    /\ Len(outcome.body) > PhoneticLimit
    /\ outcome.body[1].scientific_name # outcome.body[Len(outcome.body)].scientific_name

\* s ends with t, letters compared ignoring case.
EndsWith(s, t) ==
    Len(t) <= Len(s) /\ Lower(SubSeq(s, Len(s) - Len(t) + 1, Len(s))) = Lower(t)

\* The Levenshtein stage of the current call has issued its fetch.
EditStageRan == Len(stages) = 4

\* Every result of a list returned by the Levenshtein stage is a row of
\* that stage's fetch.
EditResultsAreFetched ==
    (EditStageRan /\ outcome.kind = "list") =>
        \A j \in 1..Len(outcome.body) :
            \E k \in 1..Len(results) :
                /\ results[k].id = outcome.body[j].ipni_id
                /\ results[k].scientific_name = outcome.body[j].scientific_name

\* C22 as stated: the Levenshtein stage fetches exactly the rows whose name
\* starts with the query's first character or ends with its last four
\* characters (the whole query when it has fewer than four), the characters
\* being equal as they are, and every result of the stage is a fetched row.
EditPoolSameCharacters ==
    EditStageRan =>
        /\ LET Hit(row) ==
                   LET s == row.scientific_name
                       t == Last4(search_for_name)
                   IN  \/ s # <<>> /\ s[1] = search_for_name[1]
                       \/ /\ Len(t) <= Len(s)
                          /\ SubSeq(s, Len(s) - Len(t) + 1, Len(s)) = t
           IN  results = SelectSeq(registry, Hit)
        /\ EditResultsAreFetched

\* C22 as amended: the same, with letters compared ignoring case.
EditPoolIgnoringCase ==
    EditStageRan =>
        /\ LET Hit(row) ==
                   \/ StartsWith(row.scientific_name, <<search_for_name[1]>>)
                   \/ EndsWith(row.scientific_name, Last4(search_for_name))
           IN  results = SelectSeq(registry, Hit)
        /\ EditResultsAreFetched

\* The Levenshtein stage fetched a row whose name starts with the query's
\* first letter in the other case, and returned it.
EditPoolWitness ==
    /\ pc = "done"
    /\ EditStageRan
    /\ outcome.kind = "list"
    /\ \E k \in 1..Len(results) :
           /\ results[k].scientific_name[1] # search_for_name[1]
           /\ StartsWith(results[k].scientific_name, <<search_for_name[1]>>)
           /\ \E j \in 1..Len(outcome.body) :
                  outcome.body[j].ipni_id = results[k].id

\* The results the returning stage kept, in the order of its fetch.
KeptInFetchOrder ==
    CASE ReturningStage = "exact" -> ExactResponse(ExactLookup(registry, search_for_name))
      [] ReturningStage = "phonetic" -> phonetic_matches
      [] OTHER -> ratios

\* C23: in a returned list, two results with equal reported similarity
\* stand in the order in which their stage's fetch delivered them, and a
\* result that was cut off (phonetic: after 30, Levenshtein: after 3) with
\* the similarity of a returned one was delivered after it.  A fetch
\* delivers the rows in the order of the registry, where a row's id is its
\* place.
TiesKeepFetchOrder ==
    outcome.kind = "list" =>
        LET kept == KeptInFetchOrder
            body == outcome.body
            returned == {body[j].ipni_id : j \in 1..Len(body)}
            cut == {i \in 1..Len(kept) : kept[i].ipni_id \notin returned}
        IN  /\ \A i \in 1..(Len(kept) - 1) : kept[i].ipni_id < kept[i + 1].ipni_id
            /\ returned \subseteq {kept[i].ipni_id : i \in 1..Len(kept)}
            /\ \A j \in 1..(Len(body) - 1) :
                   body[j].similarity = body[j + 1].similarity =>
                       body[j].ipni_id < body[j + 1].ipni_id
            /\ \A i \in cut :
                   kept[i].similarity = body[Len(body)].similarity =>
                       body[Len(body)].ipni_id < kept[i].ipni_id

\* A phonetic list of 30 results with two different similarities, the last
\* of them with the similarity of a result that was cut off.
TiesKeepFetchOrderWitness ==
    /\ outcome.kind = "list"
    /\ ReturningStage = "phonetic"
    /\ Len(outcome.body) = PhoneticLimit
    /\ outcome.body[1].similarity > outcome.body[PhoneticLimit].similarity
    /\ \E i \in 1..Len(phonetic_matches) :
           /\ \A j \in 1..PhoneticLimit :
                  outcome.body[j].ipni_id # phonetic_matches[i].ipni_id
           /\ phonetic_matches[i].similarity = outcome.body[PhoneticLimit].similarity
    /\ \E i \in 1..(Len(phonetic_matches) - 1) :
           phonetic_matches[i].similarity < phonetic_matches[i + 1].similarity

\* The rows the phonetic stage fetches for a query that is the current one
\* with c as its first character.
PoolWithFirst(c) == CandidateLookup(registry, <<c>> \o Tail(search_for_name))

\* C24: the phonetic stage fetches the rows whose name starts with the
\* query's first letter, in either case; it fetches the same rows for the
\* query with its first letter in lower case and in upper case; and every
\* result it keeps or returns is one of these rows, so a row with the
\* query's phonetic code and another first letter is not returned.
PhoneticPoolIgnoresCase ==
    PhoneticStageRan =>
        /\ LET Hit(row) ==
                   LowerChar(row.scientific_name[1]) = LowerChar(search_for_name[1])
           IN  CandidateLookup(registry, search_for_name) = SelectSeq(registry, Hit)
        /\ PoolWithFirst(LowerChar(search_for_name[1]))
               = PoolWithFirst(UpperChar(search_for_name[1]))
        /\ \A j \in 1..Len(phonetic_matches) :
               \E k \in FirstLetterPool :
                   registry[k].id = phonetic_matches[j].ipni_id
        /\ PhoneticStageReturned =>
               \A k \in 1..Len(registry) :
                   k \notin FirstLetterPool => ReturnedFor(k) = {}

\* The phonetic stage returned, for a query that starts with a lower-case
\* letter, a row whose name starts with that letter in upper case, and did
\* not return a row that has the query's phonetic code and another first
\* letter.
PhoneticPoolWitness ==
    /\ PhoneticStageReturned
    /\ search_for_name[1] # UpperChar(search_for_name[1])
    /\ \E k \in FirstLetterPool :
           /\ registry[k].scientific_name[1] = UpperChar(search_for_name[1])
           /\ ReturnedFor(k) # {}
    /\ \E k \in 1..Len(registry) :
           /\ k \notin FirstLetterPool
           /\ SameCode(k)
           /\ ReturnedFor(k) = {}

\* A request of /import_neo4j/ with valid credentials has been answered.
Neo4jAnswered ==
    /\ server.served > 0
    /\ server.response.path = "/import_neo4j/"
    /\ server.response.status # 401

\* C25: a request of /import_neo4j/ with valid credentials, made when the
\* zipped TTL file does not exist, is answered with status 405 and the
\* message that the files were not found, and Neo4jImporter.import_ttls is
\* not called; status 500 is the answer only when import_ttls was called
\* and raised.
MissingZipAnswered405 ==
    Neo4jAnswered =>
        /\ ~server.response.zip =>
               /\ server.response.status = 405
               /\ server.response.detail = ZipNotFound
               /\ server.response.importer = "none"
        /\ server.response.status = 500 => server.response.importer = "failed"

\* C28: after run-server --user U --password P, a request of /import_data/,
\* /export_ttls/ or /import_neo4j/ is answered with a status other than 401
\* if and only if it presents the username U and the password P.
ServerAcceptsRunServerCredentials ==
    (pc = "serving" /\ server.served > 0) =>
        (server.response.status # 401
            <=> /\ server.response.username = server.environ.API_USER
                /\ server.response.password = server.environ.API_PASSWORD)

\* C30: parse_date does not raise: a missing value gives not-a-time, a
\* string that does not start with year-month gives not-a-time, and a
\* string that starts with year-month or year-month-day (2 to 4 digits,
\* then 1 or 2, then 1 or 2) gives a date, its day 1 when the string has
\* none and 28 for a day above 28 of February.
ParseDateNeverRaises ==
    pc = "done" =>
        LET found == DateMatch(date.value.text)
        IN  /\ date.result.kind \in {"NaT", "date"}
            /\ date.value.missing => date.result = NaT
            /\ (~date.value.missing /\ ~found.found) => date.result = NaT
            /\ (~date.value.missing /\ found.found) =>
                   /\ date.result.kind = "date"
                   /\ found.day = <<>> => date.result.day = 1
                   /\ (date.result.month = 2 /\ IntOf(found.day) > 28) =>
                          date.result.day = 28

\* C29: a call of DbManager.import_data in which no download fails and the
\* files load returns the numbers of rows inserted and leaves the tables
\* loaded; after it the zip file exists if and only if keep_files was
\* true.
KeepFilesDecidesZipFile ==
    imports # <<>> =>
        LET call == imports[Len(imports)]
        IN  (/\ call.via = "function"
             /\ call.net
             /\ BiokbLoad(source).result.kind = "returned")
            => /\ call.result = BiokbLoad(source).result
               /\ call.after = BiokbLoad(source).tables
               /\ zip_file = call.kwargs.keep_files

\* The rows of relations whose name or related name is no stored name.
Dangling(relations, names) ==
    SelectSeq(relations,
              LAMBDA r : r.num \notin KeysOf(names) \/ r.related \notin KeysOf(names))

\* C26: after a call of DbManager.import_data of biokb_ipni, every row of
\* the name relation table has its name_id and its related_name_id among
\* the ids of the rows of the name table: the rows of NameRelation.tsv that
\* refer to a name that is not stored are not in the table.
NameRelationsReferToStoredNames ==
    \A k \in 1..Len(imports) :
        imports[k].via = "function" =>
            Dangling(imports[k].after.name_relation, imports[k].after.name) = <<>>

\* A call that returned has stored a relation of a file that also has a
\* relation to a name Name.tsv has not.
NameRelationsWitness ==
    /\ imports # <<>>
    /\ imports[Len(imports)].via = "function"
    /\ imports[Len(imports)].result.kind = "returned"
    /\ imports[Len(imports)].after.name_relation # <<>>
    /\ Dangling(CleanedFile(source.name_relation),
                imports[Len(imports)].after.name) # <<>>

\* The insert of table has run.
Inserted(table) ==
    \E k \in 1..Len(load.inserted) : load.inserted[k] = table

\* C27: in a call of DbManager.import_data of biokb_ipni, when the rows of
\* a table are inserted the insert of every table it refers to by foreign
\* key has run (reference and family before name, name and location before
\* type_material, name before name_relation), and every foreign key of the
\* inserted rows that is not null is the id of a row the referenced table
\* holds at that moment.
InsertsFollowReferencedTables ==
    [][\A t \in DOMAIN ForeignKeysOf :
          load'.inserted = Append(load.inserted, t) =>
              \A fk \in ForeignKeysOf[t] :
                  /\ Inserted(fk.table)
                  /\ \A k \in 1..Len(tables'[t]) :
                         tables'[t][k][fk.column]
                             \in KeysOf(tables[fk.table]) \cup {0}]_vars

\* The six inserts have run, and they stored a name with a reference and a
\* family, a type material with a location and a name relation.
InsertsFollowWitness ==
    /\ load # <<>>
    /\ Len(load.inserted) = 6
    /\ \E k \in 1..Len(tables.name) :
           tables.name[k].reference_id # 0 /\ tables.name[k].family_id # 0
    /\ \E k \in 1..Len(tables.type_material) :
           tables.type_material[k].location_id # 0
    /\ tables.name_relation # <<>>

====
